---- MODULE Spec2Model ----
(***************************************************************************)
(* A model of the web-search MCP tool runtime:                             *)
(*   - the remote SSE server (web-search-mcp/src/remote-sse.ts): session   *)
(*     state, GET /mcp, POST /messages, DELETE /mcp, close handlers;       *)
(*   - the search fallback chain and its provider cooldowns                *)
(*     (web-search-mcp/src/index.ts, searchWithFallbacks);                 *)
(*   - the driven browser session (web-search-mcp/src/index.ts,            *)
(*     browserState, closeBrowserSession and the browser_* tools).         *)
(* The server is one Node.js event loop: every action below is one run of  *)
(* a handler between two awaits, and handlers interleave only at awaits.   *)
(***************************************************************************)
EXTENDS Integers, Sequences, FiniteSets, TLC

(***************************************************************************)
(* Bounds of the model.                                                    *)
(***************************************************************************)
\* GET /mcp and DELETE /mcp requests that arrive in one behaviour
MaxReqs == 3
\* GET /mcp and DELETE /mcp requests that arrive while a POST /messages is followed
MaxCtlReqs == 2
\* session ids a POST /messages may carry in its query string
MaxSids == 1
\* the clock advances in steps of TickMs up to MaxNow
TickMs == 20000
MaxNow == 100000
\* result links in the largest page a search provider answers with
MaxHits == 21
\* browser processes launched in one behaviour
MaxBrowsers == 2
\* add_to_cart calls in one behaviour
MaxAdds == 3
\* additionalProperty entries, microdata properties and 'Label: Value' lines of a page
MaxSpecs == 26
\* images a source of a page lists
MaxImages == 13
\* description sentences and bullet lines of a page
MaxFeatures == 11
\* products of one compareProducts call
MaxProducts == 2
\* Number.MAX_VALUE in the unit of the prices: a difference above it is Infinity
MaxPrice == 1000
\* distinct product URLs offered to add_to_cart
MaxUrls == 3
\* the kinds of tool calls that may run on at the server after their timeout
MaxStale == 1
\* the products the workflow keeps
MaxExtracted == 2
\* connectSSE calls of the client
MaxConns == 2
\* sendJsonRpc calls of the client
MaxRpc == 2
\* words of a prompt
MaxWords == 3
\* permission requests of the gate in one behaviour
MaxRequests == 2
\* the clock of the gate advances in steps of GateTickMs up to MaxGateNow
GateTickMs == 150000
MaxGateNow == 450000

(***************************************************************************)
(* Program constants.                                                      *)
(***************************************************************************)
MAX_WAIT_MS == 5000
POLL_MS == 500
RATE_LIMIT_COOLDOWN_MS == 60000
\* web_search: max_results is an integer of 1..20
MaxResultsLimit == 20
\* buildFallbackMerchantLinks: the number of seeded merchants
FallbackSeeds == 6

\* the caps of extractProduct and of its sources
FeaturesLimit == 10
ImagesLimit == 12
TextSpecsLimit == 25
JsonLdFeaturesLimit == 6
TextFeaturesLimit == 8
HtmlImagesLimit == 8
\* runToolWorkflow: the caps and thresholds of the research workflow
MAX_TOTAL_VISITS == 15
ChildLinksLimit == 5
DiversifyPasses == 3
DiversifyLimit == 20
FewResults == 5
OptionsLimit == 3
FirstRetryMs == 2000
SecondRetryMs == 3000
CookieSelectors == 5
SearchSelectors == 4
\* confidences are in units of 0.01
WeakConfidence == 20
UnpricedConfidence == 25
ValidConfidence == 10
SoftConfidence == 8
NoPriceFallback == 9999
PriceDivisor == 200
\* getQueryTerms keeps the words of at least so many characters
MinTermLength == 2
\* the terms are the query when, joined, they have at least so many characters
MinQueryLength == 3

\* CapabilityTier
ORACLE == 1
NAVIGATOR == 2
ACTOR == 3
\* the ttlMs of the panel's button "approve for 5 minutes"
FiveMinutesMs == 300000

Null == 0
NoSid == <<>>

\* every GET /mcp constructs at most one transport
MaxSessions == MaxReqs
Sessions == 1..MaxSessions
Reqs == 1..MaxReqs

VARIABLES
    \* remote-sse.ts module state
    activeTransport,    \* the transport object (a session number) or Null
    activeSessionId,    \* transport.sessionId of the active session or NoSid
    keepaliveTimer,     \* the live interval (named by the session whose response it pings) or Null
    activeSseResponse,  \* the response object (named by its session) or Null
    \* the transports constructed so far
    nextSession,        \* number of the next transport to be constructed
    sess,               \* per transport: its SSE response stream and the calls of its close()
    cleanup,            \* history: the last session cleared by a close handler, the last one that closed late
    \* HTTP requests in flight
    req,                \* per GET/DELETE request slot: the handler's position and locals
    post,               \* the POST /messages request: the handler's position and locals
    \* index.ts: the search fallback chain
    now,                \* Date.now(), in ms since the server started
    ddgBlockedUntil,    \* the DDG pool is cooling down while now < ddgBlockedUntil
    bingBlockedUntil,   \* Bing is cooling down while now < bingBlockedUntil
    ddgLimitedAt,       \* history: when a DDG endpoint last failed with a rate-limit error
    bingLimitedAt,      \* history: when Bing last failed with a rate-limit error
    call,               \* per searchWithFallbacks call: its position, arguments and locals
    \* index.ts: the driven browser
    browserState,       \* [browser, context, page]: the recorded session, each a launch number or Null
    proc,               \* per launched browser process: "none", "live", "closed" or "closeFailed"
    nextBrowser,        \* number of the next browser to be launched
    bcall,              \* per browser tool call in flight: its position, arguments and locals
    \* index.ts: the shopping cart
    cart,               \* the cart: a sequence of items [id, url]
    nextId,             \* number of the next id randomUUID() hands out
    lastCart,           \* the last cart tool call: its arguments, the cart before it and its answer
    \* WebAgent: tool dispatch
    dcall,              \* the tool call being dispatched: its position, arguments and outcome
    \* index.ts: product extraction
    extracted,          \* the last extractProduct call: its input page and the record returned
    \* index.ts: product comparison
    compared,           \* the last compareProducts call: its arguments and the ranking returned
    \* App.tsx: the research workflow
    wf,                 \* runToolWorkflow: its position, its inputs and its locals
    tcall,              \* the callToolWithTimeout in progress: its attempt and how it ended
    stale,              \* the tool calls still running at the server after their timeout: whose they are
    launched,           \* "yes" once a browser_start of the run launched a browser, "closing" once browser_close was called for it
    \* background.ts: the MCP client of the extension
    sessionId,          \* the session of the connection whose endpoint event was read, or Null
    sseAbort,           \* the AbortController of the last connectSSE (named by its connection)
    connected,          \* the flag of the worker
    nextJsonRpcId,      \* the id of the next request
    pendingRequests,    \* the keys of the table of pending requests
    conn,               \* per connectSSE call: its position and its abort signal
    streamEnd,          \* how the stream of the last connection ended after its endpoint event, or "no"
    nextConn,           \* number of the next connectSSE call
    reconnects,         \* the setTimeout(connectSSE, ..) timers that have not fired yet
    rpc,                \* per sendJsonRpc call: its promise, its POST and its timer
    \* App.tsx: the search query
    built,              \* the query of the first web_search: the prompt and the query built from it
    \* the permission gate of the web agent and the panel that answers it
    gateNow,            \* Date.now(), in ms since the agent started
    tabAccess,          \* storage, per tab: expiresAt of the entry "tabAccess:<tab>", or 0 without entry
    scopeAccess,        \* storage, per tab: scopes and expiresAt of the entry "scopeAccess:<tab>"
    pending,            \* PermissionGate.pending: per request id its entry, or NoEntry
    nextRequestId,      \* number of the next id randomUUID() hands out to the gate
    panelRequest,       \* pendingRequest of the panel: the request it shows, or NoRequest
    gcall               \* the tool call passing the gate: its position, arguments and outcome

sessVars == <<activeTransport, activeSessionId, keepaliveTimer, activeSseResponse>>

sseVars == <<activeTransport, activeSessionId, keepaliveTimer, activeSseResponse,
             nextSession, sess, cleanup, req, post>>

searchVars == <<now, ddgBlockedUntil, bingBlockedUntil, ddgLimitedAt, bingLimitedAt, call>>

browserVars == <<browserState, proc, nextBrowser, bcall>>

cartVars == <<cart, nextId, lastCart>>

dispatchVars == <<dcall>>

extractVars == <<extracted>>

compareVars == <<compared>>

workflowVars == <<wf, tcall, stale, launched>>

clientVars == <<sessionId, sseAbort, connected, nextJsonRpcId, pendingRequests, conn, streamEnd,
               nextConn, reconnects, rpc>>

\* the search query (App.tsx)
queryVars == <<built>>

\* the permission gate (PermissionGate, CapabilityManager, the panel)
gateVars == <<gateNow, tabAccess, scopeAccess, pending, nextRequestId, panelRequest, gcall>>

vars == <<sseVars, searchVars, browserVars, cartVars, dispatchVars, extractVars, compareVars, workflowVars, clientVars, queryVars, gateVars>>

\* what each part of the program leaves alone
exceptSse == <<searchVars, browserVars, cartVars, dispatchVars, extractVars, compareVars, workflowVars, clientVars, queryVars, gateVars>>
exceptSearch == <<sseVars, browserVars, cartVars, dispatchVars, extractVars, compareVars, workflowVars, clientVars, queryVars, gateVars>>
exceptBrowser == <<sseVars, searchVars, cartVars, dispatchVars, extractVars, compareVars, workflowVars, clientVars, queryVars, gateVars>>
exceptCart == <<sseVars, searchVars, browserVars, dispatchVars, extractVars, compareVars, workflowVars, clientVars, queryVars, gateVars>>
exceptDispatch == <<sseVars, searchVars, browserVars, cartVars, extractVars, compareVars, workflowVars, clientVars, queryVars, gateVars>>
exceptExtract == <<sseVars, searchVars, browserVars, cartVars, dispatchVars, compareVars, workflowVars, clientVars, queryVars, gateVars>>
exceptCompare == <<sseVars, searchVars, browserVars, cartVars, dispatchVars, extractVars, workflowVars, clientVars, queryVars, gateVars>>
exceptWorkflow == <<sseVars, searchVars, browserVars, cartVars, dispatchVars, extractVars, compareVars, clientVars, queryVars, gateVars>>
exceptClient == <<sseVars, searchVars, browserVars, cartVars, dispatchVars, extractVars, compareVars, workflowVars, queryVars, gateVars>>
exceptQuery == <<sseVars, searchVars, browserVars, cartVars, dispatchVars, extractVars, compareVars, workflowVars, clientVars, gateVars>>
exceptGate == <<sseVars, searchVars, browserVars, cartVars, dispatchVars, extractVars, compareVars, workflowVars, clientVars, queryVars>>

\* transport.sessionId: an opaque id, distinct for distinct transports
SessionIdOf(t) == <<"sid", t>>

\* A transport not constructed yet.  stream: its SSE response; closeCalls: the
\* calls of transport.close().
NoSession == [stream |-> "none", closeCalls |-> 0]

NoCleanup == [s |-> Null, by |-> "none", again |-> FALSE, late |-> Null]

\* A request slot with no request.  t: the GET handler's transport; status: the
\* HTTP status answered; err: the exception the handler caught.
IdleReq == [pc |-> "idle", t |-> Null, status |-> 0, err |-> ""]

\* No POST request.  waited: the wait loop's counter; sid: the sessionId query
\* parameter; waitedFor: the handler entered the wait loop; saw: the transport
\* found active when the handler went on to read the body; routed: the transport
\* whose handlePostMessage was called; rpc, frames: the handling of the accepted
\* JSON-RPC request and the response frames written for it.
IdlePost == [pc |-> "idle", waited |-> 0, sid |-> NoSid, waitedFor |-> FALSE,
             saw |-> Null, mismatch |-> FALSE, routed |-> Null, status |-> 0,
             err |-> "", rpc |-> "none", frames |-> 0]

SseInit ==
    /\ activeTransport = Null
    /\ activeSessionId = NoSid
    /\ keepaliveTimer = Null
    /\ activeSseResponse = Null
    /\ nextSession = 1
    /\ sess = [s \in Sessions |-> NoSession]
    /\ cleanup = NoCleanup
    /\ req = [r \in Reqs |-> IdleReq]
    /\ post = IdlePost


\* the callers of searchWithFallbacks
Calls == {1, 2}
NoTime == -1

\* No searchWithFallbacks call.  results: the length of the result list;
\* cooling: the call was made within RATE_LIMIT_COOLDOWN_MS of a DDG rate-limit
\* failure.
IdleCall == [pc |-> "idle", query |-> "wellformed", maxResults |-> 1, results |-> 0,
             provider |-> "none", attempts |-> <<>>, cooling |-> FALSE]

SearchInit ==
    /\ now = 0
    /\ ddgBlockedUntil = 0
    /\ bingBlockedUntil = 0
    /\ ddgLimitedAt = NoTime
    /\ bingLimitedAt = NoTime
    /\ call = [c \in Calls |-> IdleCall]

\* the browser tool calls in flight
BCalls == {1, 2}
Browsers == 1..MaxBrowsers

\* the tools that work on the current page
OpTools == {"browser_open", "browser_click", "browser_type", "browser_select",
            "browser_scroll", "browser_wait_for", "browser_snapshot"}

\* No tool call.  b: the browser the handler launched or is closing; startUrl:
\* browser_start was given a start_url; sel: which of value, label, index
\* browser_select was given; chosen: the option it selects; hadPage: a page was
\* recorded when the tool was called; acted: the handler called the driver;
\* outcome: "ok", or the error the handler threw.
IdleBCall == [pc |-> "idle", tool |-> "none", b |-> Null, startUrl |-> FALSE,
              sel |-> {}, chosen |-> "none", hadPage |-> FALSE, acted |-> FALSE,
              outcome |-> ""]

NoBrowserSession == [browser |-> Null, context |-> Null, page |-> Null]

BrowserInit ==
    /\ browserState = NoBrowserSession
    /\ proc = [b \in Browsers |-> "none"]
    /\ nextBrowser = 1
    /\ bcall = [c \in BCalls |-> IdleBCall]

\* A string argument: its text without surrounding white space, and whether it
\* came with surrounding white space.
Str(text, padded) == [text |-> text, padded |-> padded]

\* String.prototype.trim
trim(str) == [str EXCEPT !.padded = FALSE]

NoStr == Str(Null, FALSE)

\* the ids randomUUID() hands out, and the ids and URLs the tools are called with
ItemIds == 1..MaxAdds
IdInputs == {Str(i, p) : i \in 1..(MaxAdds + 1), p \in BOOLEAN}
UrlInputs == {Str(u, p) : u \in 1..MaxUrls, p \in BOOLEAN}

NoCartCall == [op |-> "none", url |-> NoStr, id |-> NoStr, ok |-> TRUE,
               before |-> <<>>, returned |-> <<>>]

CartInit ==
    /\ cart = <<>>
    /\ nextId = 1
    /\ lastCart = NoCartCall

\* the tools of the registry with their required inputs, in schema order
ToolNames == {"scrape_page", "click_selector", "type_selector"}
RequiredOf(name) ==
    CASE name = "scrape_page" -> <<>>
      [] name = "click_selector" -> <<"selector">>
      [] name = "type_selector" -> <<"selector", "text">>
      [] OTHER -> <<>>

\* the tool names and the input objects a call comes with
NameInputs == ToolNames \cup {"no_such_tool"}
InputKeys == {"selector", "text"}
InputValues == {"undefined", "null", "empty", "value"}
ToolInputs == [InputKeys -> InputValues]

\* No call.  via: "callTool" or "executePlan"; error: "" or the kind of the
\* error the call failed with; missing: the keys the BadInput message lists;
\* refused: the permission gate or the capability tier said no; handlerRan: the
\* tool's handler was invoked.
IdleDCall == [pc |-> "idle", via |-> "none", name |-> "none",
              input |-> [k \in InputKeys |-> "undefined"], error |-> "",
              missing |-> <<>>, refused |-> FALSE, handlerRan |-> FALSE]

DispatchInit == dcall = IdleDCall

\* the scalar fields of a product record
Fields == {"name", "price", "currency", "availability", "brand", "category"}

\* the sets of scalar fields a source of a page supplies
FieldProfiles == {{}, {"price"}, {"price", "currency"},
                  {"name", "price", "currency", "availability", "brand"}, Fields}

\* the spec keys of a page: a source with n entries supplies the keys 1..n
SpecKeys == 1..MaxSpecs
SpecCounts == {0, 1, MaxSpecs}
ImageCounts == {0, MaxImages}
FeatureCounts == {0, MaxFeatures}

\* The pages: the JSON-LD product node (if any), the microdata, the text and the
\* <img>/<meta> images of the html, each by what it supplies.
JsonLdInputs ==
    {[present |-> FALSE, fields |-> {}, specs |-> 0, features |-> 0, images |-> 0]}
    \cup [present : {TRUE}, fields : FieldProfiles, specs : SpecCounts,
          features : FeatureCounts, images : ImageCounts]
MicrodataInputs == [fields : FieldProfiles, specs : SpecCounts, images : ImageCounts]
TextInputs == [fields : FieldProfiles, specs : SpecCounts, features : FeatureCounts]
PageInputs == [jsonld : JsonLdInputs, microdata : MicrodataInputs, text : TextInputs,
               htmlImages : ImageCounts]

\* the error of the floating-point sum of the weights, in units of 0.0001
FpErrors == {-1, 0, 1}

\* No call yet; the page is the one extract_product will be called on.
NoExtraction(page, fpError) == [called |-> FALSE, page |-> page, fpError |-> fpError]

EmptyPage == [jsonld |-> [present |-> FALSE, fields |-> {}, specs |-> 0, features |-> 0, images |-> 0],
              microdata |-> [fields |-> {}, specs |-> 0, images |-> 0],
              text |-> [fields |-> {}, specs |-> 0, features |-> 0],
              htmlImages |-> 0]

ExtractInit == extracted = NoExtraction(EmptyPage, 0)

\* A number of the comparison: a finite integer, or NaN.
Num(value) == [nan |-> FALSE, value |-> value]
NaN == [nan |-> TRUE, value |-> 0]

\* the prices of the products compared: null, or a finite number
NoPrice == [known |-> FALSE, value |-> 0]
Price(value) == [known |-> TRUE, value |-> value]
PriceInputs == {NoPrice, Price(-MaxPrice), Price(0), Price(2), Price(MaxPrice)}

\* what else a product record holds
Details == {"bare", "full", "mixedcase"}
ProductInputs == [price : PriceInputs, detail : Details]
ProductLists == UNION {[1..n -> ProductInputs] : n \in 1..MaxProducts}

\* the criteria: max_budget (null or a number) and the number of preferences
CriteriaInputs == [max_budget : {NoPrice, Price(0), Price(1)}, preferences : {0, 1}]

NoComparison(products, criteria) == [called |-> FALSE, products |-> products, criteria |-> criteria]

CompareInit == compared = NoComparison(<<[price |-> NoPrice, detail |-> "bare"]>>,
                                       [max_budget |-> NoPrice, preferences |-> 0])

\* ---- universal-web-agent-ui/src/App.tsx: the research workflow ----

\* A URL: its host and its path.  "/p/.." is the path of a product page, "/best"
\* of a listing page.
Url(host, path) == [host |-> host, path |-> path]

\* the URL literals of the prompt, in the order extractUrlsFromQuery returns them
PromptInputs == {<<>>, <<Url("a", "/p/1")>>, <<Url("a", "/p/1"), Url("a", "/p/2")>>}

\* the results one web_search call answers with, ads and aggregators left out
SearchResultInputs ==
    {<<>>, <<Url("a", "/p/1"), Url("b", "/best"), Url("b", "/p/1")>>}

\* the tools listTools() answers with: browser stands for browser_start,
\* browser_open, browser_snapshot and the other browser_* tools of the server
ToolSets == {[open_page |-> TRUE, browser |-> TRUE, compare |-> TRUE],
             [open_page |-> TRUE, browser |-> FALSE, compare |-> FALSE]}

\* what extract_product answers with: no name at all, or a named product
\* with its price, the rest of its record and its confidence in units of 0.01
NoName == [name |-> FALSE, price |-> NoPrice, detail |-> "bare", confidence |-> 0]
Product(price, detail, confidence) ==
    [name |-> TRUE, price |-> price, detail |-> detail, confidence |-> confidence]
ExtractResults == {NoName, Product(Price(2), "bare", 50), Product(Price(2), "full", 90),
                   Product(NoPrice, "bare", 9)}

\* how many product links extractLikelyProductLinks finds in a page
ChildLinkInputs == {0, ChildLinksLimit + 1}

\* the message callTool rejects with, and the message of the timer
CallErrors == {"tool failed"}
TimedOut == "timed out"

\* runToolWorkflow before its first statement
NewWorkflow(tools, prompt) ==
    [tools |-> tools, prompt |-> prompt, pc |-> "start", search |-> 0,
     allResults |-> <<>>, results |-> <<>>, r |-> 0, childLinks |-> 0, child |-> 0,
     totalVisits |-> 0, browserStarted |-> FALSE, path |-> "none", selector |-> 0,
     openPageFailed |-> FALSE, extracted |-> <<>>, options |-> <<>>]

\* no callToolWithTimeout in progress
NoCall == [label |-> "none", visit |-> 0, attempt |-> 0, status |-> "idle",
           error |-> "none", delays |-> <<>>]

WorkflowInit ==
    /\ wf = NewWorkflow([open_page |-> TRUE, browser |-> TRUE, compare |-> TRUE], <<>>)
    /\ tcall = NoCall
    /\ launched = "no"
    /\ stale = {}

\* ---- universal-web-agent-ui/src/background.ts: the MCP client ----

Conns == 1..MaxConns
RpcIds == 1..MaxRpc

\* the id of a frame: a JSON number or a JSON string; String(id) is the key
\* of the table of pending requests
FrameIds == [type : {"number", "string"}, text : RpcIds]
String(id) == id.text
FrameKinds == {"result", "error"}

NoConn == [pc |-> "none", aborted |-> FALSE]
NoRpc == [promise |-> "none", post |-> "none", timer |-> "none"]

\* the worker after its start: the module has called connectSSE() once
ClientInit ==
    /\ sessionId = Null
    /\ sseAbort = 1
    /\ connected = FALSE
    /\ nextJsonRpcId = 1
    /\ pendingRequests = {}
    /\ conn = [c \in Conns |-> IF c = 1 THEN [NoConn EXCEPT !.pc = "fetch"] ELSE NoConn]
    /\ streamEnd = "no"
    /\ nextConn = 2
    /\ reconnects = 0
    /\ rpc = [key \in RpcIds |-> NoRpc]

\* ---- App.tsx: the search query ----

\* a subset of STOP_WORDS: an article, a budget word and the word the workflow appends
STOP_WORDS == {"a", "under", "buy"}

\* the words in front of an amount that the first replace of getQueryTerms knows
BudgetWords == {"under"}

\* the units behind an amount that the third replace of getQueryTerms knows
CurrencyUnits == {"dollars"}

\* the tokens of a prompt that are digits only, and those with a currency sign
Numbers == {"500"}
CurrencyAmounts == {"$500"}

\* the tokens a prompt is made of, in lower case and separated by one blank
PromptTokens == {"tv", "laptop", "x", "a"} \cup BudgetWords \cup CurrencyUnits
                    \cup Numbers \cup CurrencyAmounts

RECURSIVE SeqsUpTo(_, _)
SeqsUpTo(S, n) ==
    IF n = 0 THEN {<<>>}
    ELSE LET shorter == SeqsUpTo(S, n - 1) IN
         shorter \cup {Append(q, x) : q \in shorter, x \in S}

QueryInputs == SeqsUpTo(PromptTokens, MaxWords)

NoQuery(query) == [query |-> query, baseQuery |-> <<>>, done |-> FALSE]

QueryInit == built = NoQuery(<<>>)

\* ---- the permission gate ----

Tabs == {1, 2}
Tiers == {ORACLE, NAVIGATOR, ACTOR}
RequestIds == 1..MaxRequests

\* the scope lists requestScopes is called with
ScopeRequests == {{"mcp:tools.call"}, {"browser:interact"}, {"mcp:tools.call", "browser:interact"}}

\* what the buttons of the panel answer: approve once, approve for 5 minutes, deny
PanelAnswers == {[approved |-> TRUE, ttlMs |-> 0], [approved |-> TRUE, ttlMs |-> FiveMinutesMs],
                 [approved |-> FALSE, ttlMs |-> 0]}

NoScopeEntry == [scopes |-> {}, expiresAt |-> 0]
NoEntry == [kind |-> "none", tabId |-> Null, scopes |-> {}]
NoRequest == [requestId |-> Null, tabId |-> Null]

\* No tool call.  via: "callTool" or "executePlan"; tier: the tier of the
\* tool; planTier: the tier of the plan; approvedBy: what made confirmAction
\* answer true; prompted: confirmAction sent a permission_request
IdleGCall == [pc |-> "idle", via |-> "none", tabId |-> Null, tier |-> ORACLE,
              planTier |-> ORACLE, requestId |-> Null, approvedBy |-> "none",
              prompted |-> FALSE, handlerRan |-> FALSE, error |-> ""]

GateInit ==
    /\ gateNow = 0
    /\ tabAccess = [t \in Tabs |-> 0]
    /\ scopeAccess = [t \in Tabs |-> NoScopeEntry]
    /\ pending = [id \in RequestIds |-> NoEntry]
    /\ nextRequestId = 1
    /\ panelRequest = NoRequest
    /\ gcall = IdleGCall

Init == SseInit /\ SearchInit /\ BrowserInit /\ CartInit /\ DispatchInit /\ ExtractInit /\ CompareInit /\ WorkflowInit /\ ClientInit /\ QueryInit /\ GateInit

\* the mutant of teardownSession: the session id is left behind
teardownSession_KeepsId ==
    /\ activeTransport' = Null
    /\ activeSessionId' = activeSessionId
    /\ activeSseResponse' = Null
    /\ keepaliveTimer' = Null
    /\ sess' = IF activeTransport # Null
               THEN [sess EXCEPT ![activeTransport].closeCalls = @ + 1,
                                 ![activeTransport].stream = "closed"]
               ELSE sess

(***************************************************************************)
(* teardownSession, up to its await: the four variables are cleared and    *)
(* close() is called on the transport that was active, which ends its SSE  *)
(* response.                                                               *)
(***************************************************************************)
teardownSession ==
    /\ activeTransport' = Null
    /\ activeSessionId' = NoSid
    /\ activeSseResponse' = Null
    /\ keepaliveTimer' = Null
    /\ sess' = IF activeTransport # Null
               THEN [sess EXCEPT ![activeTransport].closeCalls = @ + 1,
                                 ![activeTransport].stream = "closed"]
               ELSE sess

(***************************************************************************)
(* startKeepalive(res): any live interval is cleared, the response is      *)
(* recorded and a new interval is started for it.                          *)
(***************************************************************************)
startKeepalive(s) ==
    /\ activeSseResponse' = s
    /\ keepaliveTimer' = s

(***************************************************************************)
(* GET /mcp from "new SSEServerTransport" to the call of server.connect.   *)
(***************************************************************************)
CreateSession(r) ==
    LET s == nextSession IN
    /\ s \in Sessions
    /\ nextSession' = s + 1
    /\ activeTransport' = s
    /\ activeSessionId' = SessionIdOf(s)
    /\ startKeepalive(s)
    /\ sess' = [sess EXCEPT ![s] = [NoSession EXCEPT !.stream = "open"]]
    /\ req' = [req EXCEPT ![r] = [IdleReq EXCEPT !.pc = "connectAwait", !.t = s]]

\* Request slots are taken in order of arrival.
Arrives(r) == req[r].pc = "idle" /\ \A q \in 1..(r - 1) : req[q].pc # "idle"

\* GET /mcp arrives
GetStart(r) ==
    /\ Arrives(r)
    /\ IF activeTransport # Null
       THEN /\ teardownSession
            /\ req' = [req EXCEPT ![r] = [IdleReq EXCEPT !.pc = "getTeardownAwait"]]
            /\ UNCHANGED nextSession
       ELSE CreateSession(r)
    /\ UNCHANGED <<cleanup, post>>

\* GET /mcp resumes after "await teardownSession()"
GetAfterTeardown(r) ==
    /\ req[r].pc = "getTeardownAwait"
    /\ CreateSession(r)
    /\ UNCHANGED <<cleanup, post>>

\* "await server.connect(transport)" resolves
GetConnectOk(r) ==
    /\ req[r].pc = "connectAwait"
    /\ req' = [req EXCEPT ![r].pc = "done", ![r].status = 200]
    /\ UNCHANGED <<sessVars, nextSession, sess, cleanup, post>>

\* "await server.connect(transport)" rejects: the catch block
GetConnectFail(r, headersSent) ==
    /\ req[r].pc = "connectAwait"
    /\ activeTransport' = Null
    /\ activeSessionId' = NoSid
    /\ sess' = [sess EXCEPT ![req[r].t].stream = IF headersSent THEN @ ELSE "closed"]
    /\ req' = [req EXCEPT ![r].pc = "done", ![r].err = "connect",
                          ![r].status = IF headersSent THEN 200 ELSE 500]
    /\ UNCHANGED <<keepaliveTimer, activeSseResponse, nextSession, cleanup, post>>

(***************************************************************************)
(* DELETE /mcp.                                                            *)
(***************************************************************************)
DeleteStart(r) ==
    /\ Arrives(r)
    /\ IF activeTransport = Null
       THEN /\ req' = [req EXCEPT ![r] = [IdleReq EXCEPT !.pc = "done", !.status = 404]]
            /\ UNCHANGED <<sessVars, sess>>
       ELSE /\ teardownSession
            /\ req' = [req EXCEPT ![r] = [IdleReq EXCEPT !.pc = "delTeardownAwait"]]
    /\ UNCHANGED <<nextSession, cleanup, post>>

DeleteAfterTeardown(r) ==
    /\ req[r].pc = "delTeardownAwait"
    /\ req' = [req EXCEPT ![r].pc = "done", ![r].status = 200]
    /\ UNCHANGED <<sessVars, nextSession, sess, cleanup, post>>

(***************************************************************************)
(* The SSE response of session s closes: client disconnect or socket reset.*)
(***************************************************************************)
SseClose(s) ==
    /\ sess[s].stream = "open"
    /\ sess' = [sess EXCEPT ![s].stream = "closed"]
    /\ UNCHANGED <<sessVars, nextSession, cleanup, req, post>>

\* the mutant of ClearIfActive: the handler does not check that its transport is
\* still the active one
ClearIfActive_Unguarded(s, handler) ==
    /\ activeTransport' = Null
    /\ activeSessionId' = NoSid
    /\ activeSseResponse' = Null
    /\ keepaliveTimer' = Null
    /\ cleanup' = [cleanup EXCEPT !.s = s, !.by = handler, !.again = FALSE]

(***************************************************************************)
(* The body shared by res.on("close") and transport.onclose: clear the     *)
(* session state only if this transport is still the active one.  cleanup  *)
(* records which handler cleared which session, whether the other handler  *)
(* has run for that session since, and the last session whose handler ran  *)
(* while another session was the active one.                               *)
(***************************************************************************)
ClearIfActive(s, handler) ==
    IF activeTransport = s
    THEN /\ activeTransport' = Null
         /\ activeSessionId' = NoSid
         /\ activeSseResponse' = Null
         /\ keepaliveTimer' = Null
         /\ cleanup' = [cleanup EXCEPT !.s = s, !.by = handler, !.again = FALSE]
    ELSE /\ UNCHANGED sessVars
         /\ cleanup' = [cleanup EXCEPT
                          !.again = IF cleanup.s = s /\ cleanup.by # handler THEN TRUE ELSE @,
                          !.late = IF activeTransport # Null THEN s ELSE @]

\* the "close" listener of the response of session s
ResClose(s) ==
    /\ sess[s].stream = "closed"
    /\ ClearIfActive(s, "res")
    /\ UNCHANGED <<nextSession, sess, req, post>>

\* transport.onclose of session s
TransportOnclose(s) ==
    /\ sess[s].stream = "closed"
    /\ ClearIfActive(s, "onclose")
    /\ UNCHANGED <<nextSession, sess, req, post>>

(***************************************************************************)
(* The keepalive interval fires: it writes a comment to its response, or   *)
(* clears the timer when the response is gone.                             *)
(***************************************************************************)
KeepaliveTick ==
    /\ keepaliveTimer # Null
    /\ sess[keepaliveTimer].stream # "open"
    /\ keepaliveTimer' = Null
    /\ UNCHANGED <<activeTransport, activeSessionId, activeSseResponse, nextSession,
                   sess, cleanup, req, post>>

(***************************************************************************)
(* POST /messages.                                                         *)
(***************************************************************************)
SidInputs == {NoSid} \cup {SessionIdOf(s) : s \in 1..MaxSids}

\* lines 202-212: the handler stops waiting and starts reading the body
PostRoute(rec) ==
    post' = [rec EXCEPT !.pc = "readBody", !.saw = activeTransport, !.waited = 0,
                        !.mismatch = (rec.sid # activeSessionId)]

\* POST /messages arrives
PostStart(sid) ==
    /\ post.pc = "idle"
    /\ LET rec == [IdlePost EXCEPT !.sid = sid] IN
       IF sid = NoSid
       THEN post' = [rec EXCEPT !.pc = "done", !.status = 400]
       ELSE IF activeTransport = Null
       THEN post' = [rec EXCEPT !.pc = "poll", !.waitedFor = TRUE]
       ELSE PostRoute(rec)
    /\ UNCHANGED <<sessVars, nextSession, sess, cleanup, req>>

\* the POLL_MS timer of the wait loop fires
PostPollWake ==
    /\ post.pc = "poll"
    /\ LET rec == [post EXCEPT !.waited = @ + POLL_MS] IN
       IF activeTransport = Null /\ rec.waited < MAX_WAIT_MS
       THEN post' = rec
       ELSE IF activeTransport = Null
       THEN post' = [rec EXCEPT !.pc = "done", !.status = 404]
       ELSE PostRoute(rec)
    /\ UNCHANGED <<sessVars, nextSession, sess, cleanup, req>>

\* "await readJsonBody(req)" settles, then activeTransport.handlePostMessage
PostBodyRead(bodyOk) ==
    /\ post.pc = "readBody"
    /\ IF ~bodyOk
       THEN post' = [post EXCEPT !.pc = "done", !.status = 500, !.err = "BadJson"]
       ELSE IF activeTransport = Null
       THEN post' = [post EXCEPT !.pc = "done", !.status = 500, !.err = "NullTransport"]
       ELSE IF sess[activeTransport].stream # "open"
       THEN post' = [post EXCEPT !.pc = "done", !.status = 500, !.err = "NotEstablished",
                                 !.routed = activeTransport]
       ELSE post' = [post EXCEPT !.pc = "done", !.status = 202,
                                 !.routed = activeTransport, !.rpc = "running"]
    /\ UNCHANGED <<sessVars, nextSession, sess, cleanup, req>>

\* the tool handler of the accepted request completes and its response is sent
\* on the transport that took the request or on the one now connected
RpcRespond(target) ==
    /\ post.rpc = "running"
    /\ target \in {post.routed} \cup ({activeTransport} \ {Null})
    /\ IF sess[target].stream = "open"
       THEN post' = [post EXCEPT !.rpc = "responded", !.frames = @ + 1]
       ELSE post' = [post EXCEPT !.rpc = "dropped"]
    /\ UNCHANGED <<sessVars, nextSession, sess, cleanup, req>>

\* the session lifecycle: what writes the session state, for the requests of R
SessionNextOn(R) ==
    \/ \E r \in R : GetStart(r)
    \/ \E r \in R : GetAfterTeardown(r)
    \/ \E r \in R : GetConnectOk(r)
    \/ \E r \in R, h \in BOOLEAN : GetConnectFail(r, h)
    \/ \E r \in R : DeleteStart(r)
    \/ \E r \in R : DeleteAfterTeardown(r)
    \/ \E s \in Sessions : SseClose(s)
    \/ \E s \in Sessions : ResClose(s)
    \/ \E s \in Sessions : TransportOnclose(s)
    \/ KeepaliveTick

SessionNext == SessionNextOn(Reqs) /\ UNCHANGED exceptSse

PostNext ==
    /\ \/ SessionNextOn(1..MaxCtlReqs)
       \/ \E sid \in SidInputs : PostStart(sid)
       \/ PostPollWake
       \/ \E b \in BOOLEAN : PostBodyRead(b)
       \/ \E t \in Sessions : RpcRespond(t)
    /\ UNCHANGED exceptSse

\* the session lifecycle under GET /mcp, DELETE /mcp and the close events
SpecSession == Init /\ [][SessionNext]_vars

\* a POST /messages among GET /mcp, DELETE /mcp and the close events
SpecPost == Init /\ [][PostNext]_vars

(***************************************************************************)
(* Claims about the session lifecycle (SpecSession).                       *)
(***************************************************************************)
Created(s) == s \in 1..(nextSession - 1)

AllCleared ==
    /\ activeTransport = Null
    /\ activeSessionId = NoSid
    /\ activeSseResponse = Null
    /\ keepaliveTimer = Null

\* C1: in every reachable state, activeSessionId is non-null if and only if
\* activeTransport is non-null.
C1_SessionIdIffTransport ==
    (activeSessionId # NoSid) <=> (activeTransport # Null)

\* a session is active after an earlier one was torn down and a connect failed
C1_Witness ==
    /\ activeTransport # Null
    /\ activeSessionId = SessionIdOf(activeTransport)
    /\ \E r \in Reqs : req[r].err = "connect"
    /\ \E s \in Sessions : sess[s].closeCalls = 1

\* only GET /mcp requests have arrived, none failed, and no close handler has
\* cleared a session
OnlyGets ==
    /\ \A r \in Reqs :
          \/ req[r].pc \in {"idle", "getTeardownAwait", "connectAwait"}
          \/ req[r].pc = "done" /\ req[r].t # Null /\ req[r].err = ""
    /\ cleanup.s = Null

\* C2: for any interleaving of GET /mcp requests, every session that is not the
\* active one has had its transport closed exactly once, so the only SSE stream
\* that may be open is the one of activeTransport.
C2_InactiveSessionsClosedOnce ==
    OnlyGets =>
        \A s \in Sessions :
            (Created(s) /\ s # activeTransport) =>
                (sess[s].closeCalls = 1 /\ sess[s].stream = "closed")

\* C3: when a close handler (the response's "close" listener or
\* transport.onclose) runs for the active session, the four session variables
\* are null afterwards; when it runs for a session that is not active (the
\* other handler ran first, or the session was replaced) it changes nothing;
\* a session cleared by a handler is never active again.
C3_CloseHandlersIdempotent ==
    [][ /\ cleanup.s # Null => activeTransport # cleanup.s
        /\ \A s \in Sessions :
              (ResClose(s) \/ TransportOnclose(s)) =>
                  IF activeTransport = s
                  THEN AllCleared'
                  ELSE UNCHANGED sessVars ]_vars

\* one handler cleared the active session, the other ran after it, and the four
\* variables are null
C3_Witness ==
    /\ cleanup.s # Null
    /\ cleanup.again
    /\ AllCleared

(***************************************************************************)
(* Claims about POST /messages (SpecPost).                                 *)
(***************************************************************************)
\* C4: a POST /messages that arrives with no session active polls at most
\* MAX_WAIT_MS / POLL_MS times, is answered 404 only when no session was active
\* at any poll, and once a poll finds a session active its message is handed to
\* a transport.
C4_RoutedAfterGrace ==
    /\ post.pc = "poll" => post.waited < MAX_WAIT_MS
    /\ post.status = 404 =>
          (post.waitedFor /\ post.waited = MAX_WAIT_MS /\ post.saw = Null)
    /\ (post.pc = "done" /\ post.waitedFor /\ post.saw # Null /\ post.err # "BadJson") =>
          post.routed # Null

\* C5: every JSON-RPC request accepted on POST /messages has exactly one
\* response frame written to an SSE stream once its handler has completed.
C5_ExactlyOneFrame ==
    /\ post.frames <= 1
    /\ post.rpc \in {"responded", "dropped"} => post.frames = 1

(***************************************************************************)
(* The search fallback chain: searchWithFallbacks and the provider         *)
(* cooldowns.  A result list is modelled by its length; a provider's page  *)
(* by the number of distinct result links a parser finds in it.            *)
(***************************************************************************)

Min(a, b) == IF a <= b THEN a ELSE b

\* the messages of the errors a live provider's fetch can throw
ErrorMsgs == {"HTTP 403", "HTTP 429", "HTTP 500", "fetch failed"}

\* what a live provider does: it throws, or answers a page with k result links
Outcomes == [kind : {"throws"}, msg : ErrorMsgs, hits : {0}]
            \cup [kind : {"page"}, msg : {""}, hits : {0, 1, MaxHits}]

\* the queries: a well-formed string, or one that holds a lone surrogate
Queries == {"wellformed", "lonesurrogate"}

\* the mutant of isDdgRateLimited: the cooldown is never seen
isDdgRateLimited_Never(blockedUntil) == FALSE

isDdgRateLimited(blockedUntil) == now < blockedUntil

isBingRateLimited(blockedUntil) == now < blockedUntil

\* markDdgRateLimited / markBingRateLimited: the new value of the timestamp
markRateLimited == now + RATE_LIMIT_COOLDOWN_MS

isRateLimitError(msg) == msg \in {"HTTP 403", "HTTP 429"}

\* parseDdgHtmlResults, parseBingHtmlResults, parseGenericAnchors: every parser
\* stops at maxResults results
parseResults(hits, maxResults) == Min(hits, maxResults)

\* encodeURIComponent throws URIError on a string that holds a lone surrogate
encodeURIComponentThrows(query) == query = "lonesurrogate"

\* buildFallbackMerchantLinks: seeds.slice(0, Math.min(maxResults, 6))
buildFallbackMerchantLinks(maxResults) == Min(Min(maxResults, FallbackSeeds), FallbackSeeds)

Skipped(provider) == [provider |-> provider, ok |-> FALSE, count |-> 0,
                      error |-> "skipped (rate-limited)"]
Succeeded(provider, count) == [provider |-> provider, ok |-> TRUE, count |-> count, error |-> ""]
Failed(provider, msg) == [provider |-> provider, ok |-> FALSE, count |-> 0, error |-> msg]

\* step 4 and the return: the fallback when there are no results, then
\* results.slice(0, maxResults)
Step4(rec) ==
    IF rec.results = 0
    THEN IF encodeURIComponentThrows(rec.query)
         THEN [rec EXCEPT !.pc = "threw", !.provider = "fallback_merchant_links"]
         ELSE LET links == buildFallbackMerchantLinks(rec.maxResults) IN
              [rec EXCEPT !.pc = "done", !.provider = "fallback_merchant_links",
                          !.results = Min(links, rec.maxResults),
                          !.attempts = Append(@, Succeeded("fallback_merchant_links", links))]
    ELSE [rec EXCEPT !.pc = "done", !.results = Min(@, rec.maxResults)]

\* step 3: Bing is contacted, or passed over when it is cooling down
Step3(rec, bingB) ==
    IF rec.results = 0 /\ ~isBingRateLimited(bingB)
    THEN [rec EXCEPT !.pc = "bing", !.provider = "bing_html"]
    ELSE Step4(rec)

\* step 2: DDG Lite is contacted, or passed over when DDG is cooling down
Step2(rec, ddgB, bingB) ==
    IF rec.results = 0 /\ ~isDdgRateLimited(ddgB)
    THEN [rec EXCEPT !.pc = "ddgLite", !.provider = "duckduckgo_lite"]
    ELSE Step3(rec, bingB)

\* step 1: DDG HTML is contacted, or recorded as skipped when DDG is cooling down
Step1(rec, ddgB, bingB) ==
    IF ~isDdgRateLimited(ddgB)
    THEN [rec EXCEPT !.pc = "ddgHtml", !.provider = "duckduckgo_html"]
    ELSE Step2([rec EXCEPT !.attempts = Append(@, Skipped("duckduckgo_html"))], ddgB, bingB)

\* the try/catch around a live provider: the attempt it records
Attempted(rec, o) ==
    IF o.kind = "page"
    THEN [rec EXCEPT !.results = parseResults(o.hits, rec.maxResults),
                     !.attempts = Append(@, Succeeded(rec.provider,
                                                      parseResults(o.hits, rec.maxResults)))]
    ELSE [rec EXCEPT !.attempts = Append(@, Failed(rec.provider, o.msg))]

InDdgWindow == ddgLimitedAt # NoTime /\ now < ddgLimitedAt + RATE_LIMIT_COOLDOWN_MS

\* searchWithFallbacks is called
SearchStart(c, q, m) ==
    /\ call[c].pc = "idle"
    /\ \A d \in Calls : d < c => call[d].pc # "idle"
    /\ call' = [call EXCEPT ![c] =
                  Step1([IdleCall EXCEPT !.query = q, !.maxResults = m, !.cooling = InDdgWindow],
                        ddgBlockedUntil, bingBlockedUntil)]
    /\ UNCHANGED <<now, ddgBlockedUntil, bingBlockedUntil, ddgLimitedAt, bingLimitedAt>>

\* "await searchDdgHtml(...)" settles
DdgHtmlSettles(c, o) ==
    /\ call[c].pc = "ddgHtml"
    /\ LET limited == o.kind = "throws" /\ isRateLimitError(o.msg)
           ddgB == IF limited THEN markRateLimited ELSE ddgBlockedUntil IN
       /\ ddgBlockedUntil' = ddgB
       /\ ddgLimitedAt' = IF limited THEN now ELSE ddgLimitedAt
       /\ call' = [call EXCEPT ![c] = Step2(Attempted(call[c], o), ddgB, bingBlockedUntil)]
    /\ UNCHANGED <<now, bingBlockedUntil, bingLimitedAt>>

\* "await searchDdgLite(...)" settles
DdgLiteSettles(c, o) ==
    /\ call[c].pc = "ddgLite"
    /\ LET limited == o.kind = "throws" /\ isRateLimitError(o.msg) IN
       /\ ddgBlockedUntil' = IF limited THEN markRateLimited ELSE ddgBlockedUntil
       /\ ddgLimitedAt' = IF limited THEN now ELSE ddgLimitedAt
       /\ call' = [call EXCEPT ![c] = Step3(Attempted(call[c], o), bingBlockedUntil)]
    /\ UNCHANGED <<now, bingBlockedUntil, bingLimitedAt>>

\* "await searchBingHtml(...)" settles
BingSettles(c, o) ==
    /\ call[c].pc = "bing"
    /\ LET limited == o.kind = "throws" /\ isRateLimitError(o.msg) IN
       /\ bingBlockedUntil' = IF limited THEN markRateLimited ELSE bingBlockedUntil
       /\ bingLimitedAt' = IF limited THEN now ELSE bingLimitedAt
       /\ call' = [call EXCEPT ![c] = Step4(Attempted(call[c], o))]
    /\ UNCHANGED <<now, ddgBlockedUntil, ddgLimitedAt>>

\* the caller has taken the result (or the exception)
SearchReturns(c) ==
    /\ call[c].pc \in {"done", "threw"}
    /\ call' = [call EXCEPT ![c] = IdleCall]
    /\ UNCHANGED <<now, ddgBlockedUntil, bingBlockedUntil, ddgLimitedAt, bingLimitedAt>>

\* time passes
Tick ==
    /\ now + TickMs <= MaxNow
    /\ now' = now + TickMs
    /\ UNCHANGED <<ddgBlockedUntil, bingBlockedUntil, ddgLimitedAt, bingLimitedAt, call>>

\* searches by the callers of C with max_results in M, queries in Q and
\* providers that behave as in O
SearchNextOn(C, M, Q, O) ==
    /\ \/ \E c \in C, q \in Q, m \in M : SearchStart(c, q, m)
       \/ \E c \in C, o \in O : DdgHtmlSettles(c, o)
       \/ \E c \in C, o \in O : DdgLiteSettles(c, o)
       \/ \E c \in C, o \in O : BingSettles(c, o)
       \/ \E c \in C : SearchReturns(c)
       \/ Tick
    /\ UNCHANGED exceptSearch

\* one caller, every max_results of the tool's schema
SearchNext == SearchNextOn({1}, 1..MaxResultsLimit, Queries, Outcomes)

\* two overlapping calls
CooldownNext ==
    SearchNextOn(Calls, {1}, {"wellformed"},
                 {o \in Outcomes : o.msg \in {"", "HTTP 429", "HTTP 500"} /\ o.hits \in {0, MaxHits}})

SpecSearch == Init /\ [][SearchNext]_vars

SpecCooldown == Init /\ [][CooldownNext]_vars

(***************************************************************************)
(* Claims about the search fallback chain.                                 *)
(***************************************************************************)
\* C6: searchWithFallbacks never throws, and for every maxResults of 1..20 it
\* returns between 1 and maxResults results (exactly one for maxResults = 1).
C6_NeverThrowsBounded ==
    \A c \in Calls :
        /\ call[c].pc # "threw"
        /\ call[c].pc = "done" =>
              /\ call[c].results >= 1
              /\ call[c].results <= call[c].maxResults
              /\ call[c].maxResults = 1 => call[c].results = 1

\* C7: when DDG is cooling down at call time, the attempts of the search begin
\* with two skipped entries, DDG HTML then DDG Lite, followed by a Bing attempt
\* or the fallback.
C7_SkippedEndpointsRecorded ==
    \A c \in Calls :
        (call[c].pc = "done" /\ call[c].cooling) =>
            /\ Len(call[c].attempts) >= 3
            /\ call[c].attempts[1] = Skipped("duckduckgo_html")
            /\ call[c].attempts[2] = Skipped("duckduckgo_lite")
            /\ call[c].attempts[3].provider \in {"bing_html", "fallback_merchant_links"}

\* a DDG endpoint is contacted by call c in this step
ContactsDdg(c) ==
    /\ call[c].pc' \in {"ddgHtml", "ddgLite"}
    /\ call[c].pc' # call[c].pc

\* C8: within RATE_LIMIT_COOLDOWN_MS of a DDG rate-limit failure no DDG endpoint
\* is contacted (DDG Lite of the same call included) and every search called in
\* that window records "skipped (rate-limited)" for DDG; a DDG failure leaves
\* the Bing cooldown as it is and a Bing failure leaves the DDG cooldown as it is.
C8_DdgCooldown ==
    /\ [](\A c \in Calls :
            (call[c].cooling /\ call[c].pc # "idle") =>
                (/\ Len(call[c].attempts) >= 1
                 /\ call[c].attempts[1] = Skipped("duckduckgo_html")
                 /\ \A i \in 1..Len(call[c].attempts) :
                       call[c].attempts[i].provider = "duckduckgo_html" => i = 1))
    /\ [][ /\ \A c \in Calls : ContactsDdg(c) => ~InDdgWindow'
           /\ ddgLimitedAt' # ddgLimitedAt => bingBlockedUntil' = bingBlockedUntil
           /\ bingLimitedAt' # bingLimitedAt => ddgBlockedUntil' = ddgBlockedUntil ]_vars

\* a search was called while DDG was cooling down after a failure, recorded the
\* skip and got its results elsewhere; Bing is not cooling down
C8_Witness ==
    \E c \in Calls :
        /\ call[c].cooling
        /\ call[c].pc = "done"
        /\ call[c].attempts[1] = Skipped("duckduckgo_html")
        /\ InDdgWindow
        /\ ~isBingRateLimited(bingBlockedUntil)

(***************************************************************************)
(* The driven browser: browserState, closeBrowserSession, browser_start,   *)
(* browser_close and the tools that work on the current page.              *)
(***************************************************************************)
\* the mutant of ensurePageThrows: the missing page is not noticed
ensurePageThrows_Never == FALSE

\* ensurePage throws "No active browser page. Call browser_start first."
ensurePageThrows == browserState.page = Null

\* what follows closeBrowserSession in its caller: browser_start goes on to
\* "await loadPlaywright()", browser_close returns
AfterClose(rec) ==
    IF rec.tool = "browser_start"
    THEN [rec EXCEPT !.pc = "loadPlaywright", !.b = Null]
    ELSE [rec EXCEPT !.pc = "done", !.b = Null, !.outcome = "ok"]

\* closeBrowserSession from its second try block: browser.close() is called on
\* the recorded browser, or the three fields are set to null
CloseBrowserStep(c, rec) ==
    IF browserState.browser # Null
    THEN /\ bcall' = [bcall EXCEPT ![c] = [rec EXCEPT !.pc = "closeBrowser",
                                                      !.b = browserState.browser]]
         /\ UNCHANGED browserState
    ELSE /\ bcall' = [bcall EXCEPT ![c] = AfterClose(rec)]
         /\ browserState' = NoBrowserSession

\* closeBrowserSession from its start: context.close() is called on the
\* recorded context, if any
closeBrowserSession(c, rec) ==
    IF browserState.context # Null
    THEN /\ bcall' = [bcall EXCEPT ![c] = [rec EXCEPT !.pc = "closeContext"]]
         /\ UNCHANGED browserState
    ELSE CloseBrowserStep(c, rec)

\* Tool calls take the slots in order.
BArrives(c) == bcall[c].pc = "idle" /\ \A d \in BCalls : d < c => bcall[d].pc # "idle"

\* browser_start is called
BrowserStart(c, startUrl) ==
    /\ BArrives(c)
    /\ nextBrowser \in Browsers
    /\ closeBrowserSession(c, [IdleBCall EXCEPT !.tool = "browser_start", !.startUrl = startUrl,
                                                !.hadPage = (browserState.page # Null)])
    /\ UNCHANGED <<proc, nextBrowser>>

\* browser_close is called
BrowserClose(c) ==
    /\ BArrives(c)
    /\ closeBrowserSession(c, [IdleBCall EXCEPT !.tool = "browser_close",
                                                !.hadPage = (browserState.page # Null)])
    /\ UNCHANGED <<proc, nextBrowser>>

\* "await browserState.context.close()" settles; a rejection is ignored
ContextCloseSettles(c) ==
    /\ bcall[c].pc = "closeContext"
    /\ CloseBrowserStep(c, bcall[c])
    /\ UNCHANGED <<proc, nextBrowser>>

\* the mutant of BrowserCloseSettles: a rejection of browser.close() is not
\* caught and leaves the handler before the three fields are reset
BrowserCloseSettles_Throws(c, ok) ==
    /\ bcall[c].pc = "closeBrowser"
    /\ proc' = [proc EXCEPT ![bcall[c].b] = IF ok THEN "closed"
                                            ELSE IF @ = "closed" THEN @ ELSE "closeFailed"]
    /\ IF ok
       THEN /\ browserState' = NoBrowserSession
            /\ bcall' = [bcall EXCEPT ![c] = AfterClose(bcall[c])]
       ELSE /\ UNCHANGED browserState
            /\ bcall' = [bcall EXCEPT ![c].pc = "done", ![c].outcome = "DriverError"]
    /\ UNCHANGED nextBrowser

\* "await browserState.browser.close()" settles; a rejection is ignored
BrowserCloseSettles(c, ok) ==
    /\ bcall[c].pc = "closeBrowser"
    /\ proc' = [proc EXCEPT ![bcall[c].b] = IF ok THEN "closed"
                                            ELSE IF @ = "closed" THEN @ ELSE "closeFailed"]
    /\ browserState' = NoBrowserSession
    /\ bcall' = [bcall EXCEPT ![c] = AfterClose(bcall[c])]
    /\ UNCHANGED nextBrowser

\* "await loadPlaywright()" settles, then chromium.launch is called
LoadPlaywrightSettles(c, ok) ==
    /\ bcall[c].pc = "loadPlaywright"
    /\ bcall' = [bcall EXCEPT ![c] = IF ok THEN [@ EXCEPT !.pc = "launch"]
                                     ELSE [@ EXCEPT !.pc = "done", !.outcome = "PlaywrightMissing"]]
    /\ UNCHANGED <<browserState, proc, nextBrowser>>

\* "await pw.chromium.launch(...)" settles, then browser.newContext is called
LaunchSettles(c, ok) ==
    /\ bcall[c].pc = "launch"
    /\ IF ok
       THEN /\ nextBrowser \in Browsers
            /\ proc' = [proc EXCEPT ![nextBrowser] = "live"]
            /\ nextBrowser' = nextBrowser + 1
            /\ bcall' = [bcall EXCEPT ![c].pc = "newContext", ![c].b = nextBrowser]
       ELSE /\ bcall' = [bcall EXCEPT ![c].pc = "done", ![c].outcome = "LaunchFailed"]
            /\ UNCHANGED <<proc, nextBrowser>>
    /\ UNCHANGED browserState

\* "await browser.newContext()" settles, then context.newPage is called
NewContextSettles(c, ok) ==
    /\ bcall[c].pc = "newContext"
    /\ bcall' = [bcall EXCEPT ![c] = IF ok THEN [@ EXCEPT !.pc = "newPage"]
                                     ELSE [@ EXCEPT !.pc = "done", !.outcome = "NewContextFailed"]]
    /\ UNCHANGED <<browserState, proc, nextBrowser>>

\* "await context.newPage()" settles: the session is recorded, then page.goto is
\* called when a start_url was given
NewPageSettles(c, ok) ==
    /\ bcall[c].pc = "newPage"
    /\ IF ok
       THEN /\ browserState' = [browser |-> bcall[c].b, context |-> bcall[c].b, page |-> bcall[c].b]
            /\ bcall' = [bcall EXCEPT ![c] = IF @.startUrl
                                             THEN [@ EXCEPT !.pc = "goto", !.acted = TRUE]
                                             ELSE [@ EXCEPT !.pc = "done", !.outcome = "ok"]]
       ELSE /\ bcall' = [bcall EXCEPT ![c].pc = "done", ![c].outcome = "NewPageFailed"]
            /\ UNCHANGED browserState
    /\ UNCHANGED <<proc, nextBrowser>>

\* "await page.goto(start_url)" settles
GotoSettles(c, ok) ==
    /\ bcall[c].pc = "goto"
    /\ bcall' = [bcall EXCEPT ![c].pc = "done", ![c].outcome = IF ok THEN "ok" ELSE "DriverError"]
    /\ UNCHANGED <<browserState, proc, nextBrowser>>

\* browser_select: the option built from value, label, index
selectOption(sel) ==
    IF "value" \in sel THEN "value"
    ELSE IF "label" \in sel THEN "label"
    ELSE IF "index" \in sel THEN "index"
    ELSE "none"

\* a tool that works on the current page is called: ensurePage, then the first
\* call of the driver
PageToolCall(c, tool, sel) ==
    /\ BArrives(c)
    /\ tool \in OpTools
    /\ tool # "browser_select" => sel = {}
    /\ LET rec == [IdleBCall EXCEPT !.tool = tool, !.sel = sel,
                                    !.hadPage = (browserState.page # Null)] IN
       IF ensurePageThrows
       THEN bcall' = [bcall EXCEPT ![c] = [rec EXCEPT !.pc = "done", !.outcome = "NoSession"]]
       ELSE IF tool = "browser_select" /\ selectOption(sel) = "none"
       THEN bcall' = [bcall EXCEPT ![c] = [rec EXCEPT !.pc = "done", !.outcome = "BadInput"]]
       ELSE bcall' = [bcall EXCEPT ![c] = [rec EXCEPT !.pc = "driver", !.acted = TRUE,
                                                      !.chosen = selectOption(sel)]]
    /\ UNCHANGED <<browserState, proc, nextBrowser>>

\* the driver calls of the tool settle
PageToolSettles(c, ok) ==
    /\ bcall[c].pc = "driver"
    /\ bcall' = [bcall EXCEPT ![c].pc = "done", ![c].outcome = IF ok THEN "ok" ELSE "DriverError"]
    /\ UNCHANGED <<browserState, proc, nextBrowser>>

\* the caller has taken the tool's result
BrowserToolReturns(c) ==
    /\ bcall[c].pc = "done"
    /\ bcall' = [bcall EXCEPT ![c] = IdleBCall]
    /\ UNCHANGED <<browserState, proc, nextBrowser>>

BrowserNext ==
    /\ \/ \E c \in BCalls, u \in BOOLEAN : BrowserStart(c, u)
       \/ \E c \in BCalls : BrowserClose(c)
       \/ \E c \in BCalls : ContextCloseSettles(c)
       \/ \E c \in BCalls, ok \in BOOLEAN : BrowserCloseSettles(c, ok)
       \/ \E c \in BCalls, ok \in BOOLEAN : LoadPlaywrightSettles(c, ok)
       \/ \E c \in BCalls, ok \in BOOLEAN : LaunchSettles(c, ok)
       \/ \E c \in BCalls, ok \in BOOLEAN : NewContextSettles(c, ok)
       \/ \E c \in BCalls, ok \in BOOLEAN : NewPageSettles(c, ok)
       \/ \E c \in BCalls, ok \in BOOLEAN : GotoSettles(c, ok)
       \/ \E c \in BCalls, tool \in OpTools, sel \in SUBSET {"value", "label", "index"} :
             PageToolCall(c, tool, sel)
       \/ \E c \in BCalls, ok \in BOOLEAN : PageToolSettles(c, ok)
       \/ \E c \in BCalls : BrowserToolReturns(c)
    /\ UNCHANGED exceptBrowser

SpecBrowser == Init /\ [][BrowserNext]_vars

(***************************************************************************)
(* Claims about the driven browser (SpecBrowser).                          *)
(***************************************************************************)
NoBrowserToolRunning == \A c \in BCalls : bcall[c].pc \in {"idle", "done"}

\* C9: after any interleaving of browser_start and browser_close calls, every
\* launched browser process that has not been closed is the one recorded in
\* browserState, so at most one is left.
C9_SingleBrowser ==
    NoBrowserToolRunning =>
        \A b \in Browsers : proc[b] = "live" => browserState.browser = b

\* C10: a page tool called while no page is recorded fails with the NoSession
\* error and calls no driver operation; no page is recorded before the first
\* browser_start and when a browser_close returns.
C10_NoSession ==
    /\ [](\A c \in BCalls :
            (bcall[c].tool \in OpTools /\ ~bcall[c].hadPage) =>
                (bcall[c].pc = "done" /\ bcall[c].outcome = "NoSession" /\ ~bcall[c].acted))
    /\ [](nextBrowser = 1 => browserState.page = Null)
    /\ [][\A c \in BCalls :
            (bcall[c].tool = "browser_close" /\ bcall[c].pc # "done" /\ bcall'[c].pc = "done")
                => browserState'.page = Null]_vars

\* a page tool was refused after a session had been started and closed
C10_Witness ==
    \E c \in BCalls :
        /\ bcall[c].tool \in OpTools
        /\ bcall[c].outcome = "NoSession"
        /\ ~bcall[c].acted
        /\ \E b \in Browsers : proc[b] = "closed"

\* C11: browser_close never fails, also when browser.close() throws; when it
\* returns, browser, context and page are all null; and a browser_close called
\* with nothing recorded (a second call in a row) returns at once and leaves
\* browserState unchanged.
C11_CloseIdempotent ==
    /\ [](\A c \in BCalls :
            (bcall[c].tool = "browser_close" /\ bcall[c].pc = "done") => bcall[c].outcome = "ok")
    /\ [][\A c \in BCalls :
            /\ (bcall[c].tool = "browser_close" /\ bcall[c].pc # "done" /\ bcall'[c].pc = "done")
                  => browserState' = NoBrowserSession
            /\ (bcall[c].pc = "idle" /\ bcall'[c].tool = "browser_close"
                    /\ browserState = NoBrowserSession)
                  => (bcall'[c].pc = "done" /\ bcall'[c].outcome = "ok"
                        /\ UNCHANGED <<browserState, proc>>)]_vars

\* two browser_close calls in a row, the first on a session whose
\* browser.close() threw, the second with nothing recorded
C11_Witness ==
    /\ bcall[1].tool = "browser_close" /\ bcall[1].pc = "done" /\ bcall[1].hadPage
    /\ bcall[2].tool = "browser_close" /\ bcall[2].pc = "done" /\ ~bcall[2].hadPage
    /\ bcall[2].outcome = "ok"
    /\ browserState = NoBrowserSession
    /\ \E b \in Browsers : proc[b] = "closeFailed"

\* C12: browser_select called on a recorded page selects an option only when
\* exactly one of value, label, index was given; with none or with more than
\* one it fails with BadInput and selects nothing.
C12_ExactlyOneOption ==
    \A c \in BCalls :
        (bcall[c].tool = "browser_select" /\ bcall[c].hadPage) =>
            IF Cardinality(bcall[c].sel) = 1
            THEN bcall[c].acted /\ bcall[c].chosen \in bcall[c].sel
            ELSE /\ bcall[c].pc = "done"
                 /\ bcall[c].outcome = "BadInput"
                 /\ ~bcall[c].acted
                 /\ bcall[c].chosen = "none"

(***************************************************************************)
(* The shopping cart: add_to_cart, list_cart, remove_from_cart and         *)
(* clear_cart.  The handlers have no await: each is one step.              *)
(***************************************************************************)
\* cart.find((c) => c.url === url) finds an item
HasUrl(items, url) == \E i \in 1..Len(items) : items[i].url = url

\* cart.findIndex((item) => item.id === id), 0 for -1
findIndex(items, id) ==
    IF \E i \in 1..Len(items) : items[i].id = id
    THEN CHOOSE i \in 1..Len(items) : items[i].id = id /\ \A j \in 1..(i - 1) : items[j].id # id
    ELSE 0

\* the mutant of splice: the last item is dropped whatever the index
splice_Last(items, index) == SubSeq(items, 1, Len(items) - 1)

\* cart.splice(index, 1)
splice(items, index) == [i \in 1..(Len(items) - 1) |-> IF i < index THEN items[i] ELSE items[i + 1]]

\* the mutant of add_to_cart: the item is pushed without looking for its URL
add_to_cart_NoDedup(url) ==
    /\ nextId \in ItemIds
    /\ cart' = Append(cart, [id |-> Str(nextId, FALSE), url |-> trim(url)])
    /\ nextId' = nextId + 1
    /\ lastCart' = [NoCartCall EXCEPT !.op = "add", !.url = url, !.before = cart, !.returned = cart']

add_to_cart(url) ==
    /\ nextId \in ItemIds
    /\ LET item == [id |-> Str(nextId, FALSE), url |-> trim(url)] IN
       IF HasUrl(cart, item.url)
       THEN /\ UNCHANGED cart
            /\ lastCart' = [NoCartCall EXCEPT !.op = "add", !.url = url, !.ok = FALSE,
                                              !.before = cart, !.returned = cart]
       ELSE /\ cart' = Append(cart, item)
            /\ lastCart' = [NoCartCall EXCEPT !.op = "add", !.url = url,
                                              !.before = cart, !.returned = cart']
    /\ nextId' = nextId + 1

list_cart ==
    /\ lastCart' = [NoCartCall EXCEPT !.op = "list", !.before = cart, !.returned = cart]
    /\ UNCHANGED <<cart, nextId>>

remove_from_cart(id) ==
    /\ LET index == findIndex(cart, trim(id)) IN
       IF index = 0
       THEN /\ UNCHANGED cart
            /\ lastCart' = [NoCartCall EXCEPT !.op = "remove", !.id = id, !.ok = FALSE,
                                              !.before = cart, !.returned = cart]
       ELSE /\ cart' = splice(cart, index)
            /\ lastCart' = [NoCartCall EXCEPT !.op = "remove", !.id = id,
                                              !.before = cart, !.returned = cart']
    /\ UNCHANGED nextId

clear_cart ==
    /\ cart' = <<>>
    /\ lastCart' = [NoCartCall EXCEPT !.op = "clear", !.before = cart, !.returned = <<>>]
    /\ UNCHANGED nextId

CartNext ==
    /\ \/ \E url \in UrlInputs : add_to_cart(url)
       \/ list_cart
       \/ \E id \in IdInputs : remove_from_cart(id)
       \/ clear_cart
    /\ UNCHANGED exceptCart

SpecCart == Init /\ [][CartNext]_vars
(***************************************************************************)
(* Claims about the cart (SpecCart).                                       *)
(***************************************************************************)
\* the ids and the URLs of the items of a cart
IdsOf(items) == {items[i].id : i \in 1..Len(items)}
UrlsOf(items) == {items[i].url : i \in 1..Len(items)}

Rejected == ~lastCart.ok /\ cart = lastCart.before /\ lastCart.returned = lastCart.before

C14_CartOrderedSet ==
    /\ \A i, j \in 1..Len(cart) :
          i < j => /\ cart[i].url # cart[j].url
                   /\ cart[i].id.text < cart[j].id.text
    /\ (lastCart.op = "add" /\ lastCart.ok) =>
          (Len(cart) = Len(lastCart.before) + 1 /\ SubSeq(cart, 1, Len(lastCart.before)) = lastCart.before)
    /\ (lastCart.op = "remove" /\ lastCart.ok) =>
          /\ Len(cart) = Len(lastCart.before) - 1
          /\ IdsOf(cart) = IdsOf(lastCart.before) \ {trim(lastCart.id)}
    /\ lastCart.op = "clear" => cart = <<>>

\* the middle item of a cart of three was removed
C14_Witness ==
    /\ lastCart.op = "remove"
    /\ lastCart.ok
    /\ Len(lastCart.before) = 3
    /\ lastCart.before[2].id = trim(lastCart.id)
    /\ Len(cart) = 2
(***************************************************************************)
(* Tool dispatch of the web agent: WebAgent.callTool and the step loop of   *)
(* WebAgent.executePlan, with validateToolInput.                           *)
(***************************************************************************)
\* this.tools.getTool(name) finds a tool
Registered(name) == name \in ToolNames

\* the mutant of IsMissing: the empty string counts as given
IsMissing_EmptyAllowed(value) == value \in {"undefined", "null"}

\* input[key] === undefined || input[key] === null || input[key] === ""
IsMissing(value) == value \in {"undefined", "null", "empty"}

\* required.filter(...) of validateToolInput: the missing keys, in schema order
validateToolInput(name, input) ==
    SelectSeq(RequiredOf(name), LAMBDA key : IsMissing(input[key]))

\* scopeForTier(tool.tier) is not null: click_selector and type_selector are
\* NAVIGATOR tools, scrape_page is an ORACLE tool
NeedsTierScope(name) == name \in {"click_selector", "type_selector"}

DFail(rec, error) == [rec EXCEPT !.pc = "done", !.error = error]
DRefuse(rec, error) == [rec EXCEPT !.pc = "done", !.error = error, !.refused = TRUE]

\* callTool from validateToolInput to the call of permissionGate.confirmAction
CallToolValidate(rec) ==
    LET missing == validateToolInput(rec.name, rec.input) IN
    IF missing # <<>>
    THEN [DFail(rec, "BadInput") EXCEPT !.missing = missing]
    ELSE [rec EXCEPT !.pc = "confirmAction"]

\* callTool is called: permissionGate.hasScopeAccess(["mcp:tools.call"]) is awaited
CallTool(name, input) ==
    /\ dcall.pc = "idle"
    /\ dcall' = [IdleDCall EXCEPT !.pc = "ensureScopes", !.via = "callTool",
                                  !.name = name, !.input = input]

\* ensureScopes settles, then the lookup, then the scope of the tool's tier
EnsureScopesSettles(ok) ==
    /\ dcall.pc = "ensureScopes"
    /\ dcall' = IF ~ok THEN DRefuse(dcall, "MissingScopes")
                ELSE IF ~Registered(dcall.name) THEN DFail(dcall, "UnknownTool")
                ELSE IF NeedsTierScope(dcall.name) THEN [dcall EXCEPT !.pc = "ensureTierScope"]
                ELSE CallToolValidate(dcall)

\* ensureScopes for the tier's scope settles, then validateToolInput
EnsureTierScopeSettles(ok) ==
    /\ dcall.pc = "ensureTierScope"
    /\ dcall' = IF ~ok THEN DRefuse(dcall, "MissingScopes") ELSE CallToolValidate(dcall)

\* a step of executePlan: the lookup, assertTierAllowed, then
\* permissionGate.confirmAction is awaited
PlanStep(name, input, tierAllowed) ==
    /\ dcall.pc = "idle"
    /\ LET rec == [IdleDCall EXCEPT !.via = "executePlan", !.name = name, !.input = input] IN
       dcall' = IF ~Registered(name) THEN DFail(rec, "UnknownTool")
                ELSE IF ~tierAllowed THEN DRefuse(rec, "TierNotAllowed")
                ELSE [rec EXCEPT !.pc = "confirmAction"]

\* confirmAction settles: callTool invokes the handler; executePlan validates
\* the input first
ConfirmActionSettles(approved) ==
    /\ dcall.pc = "confirmAction"
    /\ dcall' =
         IF ~approved THEN DRefuse(dcall, "UserDenied")
         ELSE IF dcall.via = "executePlan" /\ validateToolInput(dcall.name, dcall.input) # <<>>
         THEN [DFail(dcall, "BadInput") EXCEPT !.missing = validateToolInput(dcall.name, dcall.input)]
         ELSE [dcall EXCEPT !.pc = "handler", !.handlerRan = TRUE]

\* "await tool.handler(...)" settles
HandlerSettles(ok) ==
    /\ dcall.pc = "handler"
    /\ dcall' = IF ok THEN [dcall EXCEPT !.pc = "done"] ELSE DFail(dcall, "HandlerError")

\* the caller has taken the outcome
DispatchReturns ==
    /\ dcall.pc = "done"
    /\ dcall' = IdleDCall

DispatchNext ==
    /\ \/ \E name \in NameInputs, input \in ToolInputs : CallTool(name, input)
       \/ \E ok \in BOOLEAN : EnsureScopesSettles(ok)
       \/ \E ok \in BOOLEAN : EnsureTierScopeSettles(ok)
       \/ \E name \in NameInputs, input \in ToolInputs, tierAllowed \in BOOLEAN :
             PlanStep(name, input, tierAllowed)
       \/ \E approved \in BOOLEAN : ConfirmActionSettles(approved)
       \/ \E ok \in BOOLEAN : HandlerSettles(ok)
       \/ DispatchReturns
    /\ UNCHANGED exceptDispatch

SpecDispatch == Init /\ [][DispatchNext]_vars

(***************************************************************************)
(* Claims about tool dispatch (SpecDispatch).                              *)
(***************************************************************************)
\* the required keys of the call that are undefined, null or the empty string
MissingKeys == SelectSeq(RequiredOf(dcall.name),
                         LAMBDA key : dcall.input[key] \in {"undefined", "null", "empty"})

HandlerOnlyAfterChecks ==
    dcall.handlerRan => (Registered(dcall.name) /\ MissingKeys = <<>>)

\* C15 as stated: a finished call naming an unregistered tool failed with
\* UnknownTool, a finished call with missing required inputs failed with BadInput
\* listing exactly the missing keys, neither invoked a handler, and a handler is
\* invoked only for a registered tool with no missing input.
C15_Dispatch ==
    /\ HandlerOnlyAfterChecks
    /\ (dcall.pc = "done" /\ ~Registered(dcall.name)) => dcall.error = "UnknownTool"
    /\ (dcall.pc = "done" /\ Registered(dcall.name) /\ MissingKeys # <<>>) =>
          (dcall.error = "BadInput" /\ dcall.missing = MissingKeys)

\* C15 amended: the same for the calls that the permission gate and the
\* capability tier did not refuse; a refused call fails with the refusal and
\* invokes no handler.
C15_DispatchUnlessRefused ==
    /\ HandlerOnlyAfterChecks
    /\ (dcall.pc = "done" /\ ~dcall.refused /\ ~Registered(dcall.name)) =>
          dcall.error = "UnknownTool"
    /\ (dcall.pc = "done" /\ ~dcall.refused /\ Registered(dcall.name) /\ MissingKeys # <<>>) =>
          (dcall.error = "BadInput" /\ dcall.missing = MissingKeys)
    /\ dcall.refused =>
          (dcall.error \in {"MissingScopes", "TierNotAllowed", "UserDenied"} /\ ~dcall.handlerRan)
    /\ dcall.error = "BadInput" => (MissingKeys # <<>> /\ dcall.missing = MissingKeys)
    /\ dcall.error = "UnknownTool" => ~Registered(dcall.name)

\* type_selector was called with a selector and an empty text and failed with
\* BadInput listing text alone
C15_Witness ==
    /\ dcall.pc = "done"
    /\ dcall.name = "type_selector"
    /\ dcall.input["selector"] = "value"
    /\ dcall.input["text"] = "empty"
    /\ dcall.error = "BadInput"
    /\ dcall.missing = <<"text">>
    /\ ~dcall.handlerRan
(***************************************************************************)
(* Product extraction: extractFromJsonLd, extractFromMicrodata, the text   *)
(* heuristics, extractProduct and computeConfidence.  A value is modelled  *)
(* by the source that supplied it.                                         *)
(***************************************************************************)
\* Array.prototype.slice(0, n)
slice(seq, n) == SubSeq(seq, 1, Min(n, Len(seq)))

\* Array.from(new Set(seq)): the first occurrence of every element, in order
RECURSIVE Dedupe(_)
Dedupe(seq) ==
    IF seq = <<>> THEN <<>>
    ELSE LET front == Dedupe(SubSeq(seq, 1, Len(seq) - 1))
             last == seq[Len(seq)] IN
         IF \E i \in 1..Len(front) : front[i] = last THEN front ELSE Append(front, last)

\* the scalar fields a source supplies, each tagged with the source
FieldsFrom(source, fields) == [f \in Fields |-> IF f \in fields THEN source ELSE "none"]

\* the spec entries a source supplies: keys 1..n, each value tagged with the source
SpecsFrom(source, n) == [k \in SpecKeys |-> IF k <= n THEN source ELSE "none"]

NoSpecs == [k \in SpecKeys |-> "none"]

\* Object.keys(specs)
Keys(specs) == {k \in SpecKeys : specs[k] # "none"}

\* { ...a, ...b }: the entries of b replace those of a
Spread(a, b) == [k \in SpecKeys |-> IF b[k] # "none" THEN b[k] ELSE a[k]]

extractFromJsonLd(j) ==
    IF ~j.present
    THEN [usedStructuredData |-> FALSE, fields |-> FieldsFrom("jsonld", {}),
          key_features |-> <<>>, images |-> <<>>, specs |-> NoSpecs]
    ELSE [usedStructuredData |-> TRUE,
          fields |-> FieldsFrom("jsonld", j.fields),
          key_features |-> slice([i \in 1..j.features |-> <<"jsonld", i>>], JsonLdFeaturesLimit),
          images |-> [i \in 1..j.images |-> i],
          specs |-> SpecsFrom("jsonld", j.specs)]

extractFromMicrodata(m) ==
    [usedStructuredData |-> (m.fields # {} \/ m.images > 0),
     fields |-> FieldsFrom("microdata", m.fields),
     key_features |-> <<>>,
     images |-> [i \in 1..m.images |-> i],
     specs |-> SpecsFrom("microdata", m.specs)]

\* extractSpecsFromText: the first value of every key, at most 25 keys
extractSpecsFromText(t) == SpecsFrom("text", Min(t.specs, TextSpecsLimit))

extractKeyFeaturesFromText(t) == slice([i \in 1..t.features |-> <<"text", i>>], TextFeaturesLimit)

extractImageCandidates(n) == slice([i \in 1..n |-> i], HtmlImagesLimit)

\* the weights of computeConfidence, in units of 0.0001
Weight(product, usedStructuredData) ==
      (IF product.fields["name"] # "none" THEN 2000 ELSE 0)
    + (IF product.fields["price"] # "none"
       THEN (IF product.fields["currency"] # "none" THEN 2500 ELSE 1500) ELSE 0)
    + (IF product.fields["availability"] # "none" THEN 1000 ELSE 0)
    + (IF product.fields["brand"] # "none" THEN 1000 ELSE 0)
    + (IF product.fields["category"] # "none" THEN 500 ELSE 0)
    + (IF Len(product.key_features) > 0 THEN 1000 ELSE 0)
    + (IF Len(product.images) > 0 THEN 1000 ELSE 0)
    + (IF Keys(product.specs) # {} THEN 1000 ELSE 0)
    + (IF usedStructuredData THEN 1000 ELSE 0)

\* Number(score.toFixed(2)), in units of 0.01, of a score in units of 0.0001
toFixed2(score) == (score + 50) \div 100

\* the mutant of clamp: no upper limit
clamp_NoMax(x) == IF x < 0 THEN 0 ELSE x

\* Math.max(0, Math.min(1, x)), in units of 0.01
clamp(x) == IF x < 0 THEN 0 ELSE IF x > 100 THEN 100 ELSE x

\* computeConfidence, in units of 0.01; fpError is the error of the
\* floating-point sum
computeConfidence(product, usedStructuredData, fpError) ==
    LET sum == Weight(product, usedStructuredData) IN
    clamp(toFixed2(IF sum = 0 THEN 0 ELSE sum + fpError))

extractProduct(page) ==
    LET fromJsonLd == extractFromJsonLd(page.jsonld)
        fromMicrodata == extractFromMicrodata(page.microdata)
        mergedSpecs == Spread(fromJsonLd.specs, fromMicrodata.specs)
        structured == [f \in Fields |->
                         IF fromJsonLd.fields[f] # "none" THEN fromJsonLd.fields[f]
                         ELSE fromMicrodata.fields[f]]
        fromText(f) == IF f \in page.text.fields THEN "text" ELSE "none"
        fields == [f \in Fields |->
                     IF f = "currency"
                     THEN IF structured["price"] = "none" /\ structured[f] = "none"
                          THEN fromText(f) ELSE structured[f]
                     ELSE IF structured[f] = "none" THEN fromText(f) ELSE structured[f]]
        features0 == fromJsonLd.key_features \o fromMicrodata.key_features
        features1 == IF features0 = <<>> THEN extractKeyFeaturesFromText(page.text) ELSE features0
        images0 == fromJsonLd.images \o fromMicrodata.images
        images1 == IF images0 = <<>> THEN extractImageCandidates(page.htmlImages) ELSE images0
    IN [fields |-> fields,
        key_features |-> slice(Dedupe(features1), FeaturesLimit),
        images |-> slice(Dedupe(images1), ImagesLimit),
        specs |-> Spread(mergedSpecs, extractSpecsFromText(page.text))]

\* extract_product is called on the page
Extract ==
    /\ ~extracted.called
    /\ LET page == extracted.page
           fpError == extracted.fpError
           base == extractProduct(page)
           used == extractFromJsonLd(page.jsonld).usedStructuredData
                     \/ extractFromMicrodata(page.microdata).usedStructuredData IN
       extracted' = [called |-> TRUE, page |-> page, fpError |-> fpError,
                     usedStructuredData |-> used, product |-> base,
                     confidence |-> computeConfidence(base, used, fpError)]
    /\ UNCHANGED exceptExtract

ExtractNext == Extract

\* every page, before extract_product is called on it
ExtractInputs ==
    /\ SseInit /\ SearchInit /\ BrowserInit /\ CartInit /\ DispatchInit /\ CompareInit
    /\ WorkflowInit /\ ClientInit /\ QueryInit /\ GateInit
    /\ \E page \in PageInputs, fpError \in FpErrors : extracted = NoExtraction(page, fpError)

SpecExtract == ExtractInputs /\ [][ExtractNext]_vars
(***************************************************************************)
(* Claims about product extraction (SpecExtract).                          *)
(***************************************************************************)
\* C16: every extracted record has at most 10 key_features, at most 12 images
\* and at most 25 specs entries.
C16_ListCaps ==
    extracted.called =>
        /\ Len(extracted.product.key_features) <= 10
        /\ Len(extracted.product.images) <= 12
        /\ Cardinality(Keys(extracted.product.specs)) <= 25

\* the sum of the weights of the present fields of the extracted record, in
\* units of 0.01
WeightSum ==
    LET p == extracted.product
        has(f) == p.fields[f] # "none" IN
      (IF has("name") THEN 20 ELSE 0)
    + (IF has("price") THEN (IF has("currency") THEN 25 ELSE 15) ELSE 0)
    + (IF has("availability") THEN 10 ELSE 0)
    + (IF has("brand") THEN 10 ELSE 0)
    + (IF has("category") THEN 5 ELSE 0)
    + (IF p.key_features # <<>> THEN 10 ELSE 0)
    + (IF p.images # <<>> THEN 10 ELSE 0)
    + (IF \E k \in SpecKeys : p.specs[k] # "none" THEN 10 ELSE 0)
    + (IF extracted.usedStructuredData THEN 10 ELSE 0)

\* C17: the confidence of an extracted record is the sum of the weights of its
\* present fields, rounded to two decimals and clamped to [0,1]; a record with
\* name, price, currency, availability and brand from JSON-LD has at least 0.75.
C17_ConfidenceIsWeightSum ==
    extracted.called =>
        /\ extracted.confidence = (IF WeightSum > 100 THEN 100 ELSE WeightSum)
        /\ extracted.confidence \in 0..100
        /\ (\A f \in {"name", "price", "currency", "availability", "brand"} :
               extracted.product.fields[f] = "jsonld") => extracted.confidence >= 75

\* a record whose weights add up to 1.10, computed with a floating-point error
C17_Witness ==
    /\ extracted.called
    /\ WeightSum = 110
    /\ extracted.fpError # 0
    /\ extracted.confidence = 100

\* C18: an extracted record with a price and no currency has a confidence
\* strictly lower than the same record with a currency.
C18_NoCurrencyStrictlyLower ==
    (extracted.called /\ extracted.product.fields["price"] # "none"
        /\ extracted.product.fields["currency"] = "none") =>
        extracted.confidence <
            computeConfidence([extracted.product EXCEPT !.fields["currency"] = "text"],
                              extracted.usedStructuredData, extracted.fpError)

\* the source of a page that comes first, in the order JSON-LD, microdata,
\* text, among those that supply the scalar field f; "none" when none does
EarliestField(page, f) ==
    IF page.jsonld.present /\ f \in page.jsonld.fields THEN "jsonld"
    ELSE IF f \in page.microdata.fields THEN "microdata"
    ELSE IF f \in page.text.fields THEN "text"
    ELSE "none"

\* the same for the spec key k
EarliestSpec(page, k) ==
    IF page.jsonld.present /\ k <= page.jsonld.specs THEN "jsonld"
    ELSE IF k <= page.microdata.specs THEN "microdata"
    ELSE IF k <= page.text.specs /\ k <= TextSpecsLimit THEN "text"
    ELSE "none"

\* C19: every scalar field and every spec key of the extracted record has the
\* value of the earliest source, in the order JSON-LD, microdata, text, that
\* supplies it.
C19_SourcePrecedence ==
    extracted.called =>
        /\ \A f \in Fields : extracted.product.fields[f] = EarliestField(extracted.page, f)
        /\ \A k \in SpecKeys : extracted.product.specs[k] = EarliestSpec(extracted.page, k)
(***************************************************************************)
(* Product comparison: compareProducts.                                    *)
(***************************************************************************)
\* the fields of a product record, by its detail
HasCurrency(product) == product.detail # "bare"
HasBrand(product) == product.detail = "full"
SpecKeysOf(product) ==
    CASE product.detail = "bare" -> {}
      [] product.detail = "full" -> {"color"}
      [] product.detail = "mixedcase" -> {"Color", "color"}
FeaturesOf(product) ==
    CASE product.detail = "bare" -> 0
      [] product.detail = "full" -> 2
      [] product.detail = "mixedcase" -> 1
MatchesPreference(product) == product.detail = "full"

\* String.prototype.toLowerCase
toLowerCase(key) == IF key = "Color" THEN "color" ELSE key

\* Math.round(n / d) of non-negative integers, d > 0
RoundDiv(n, d) == (2 * n + d) \div (2 * d)

SetMin(S) == CHOOSE x \in S : \A y \in S : x <= y
SetMax(S) == CHOOSE x \in S : \A y \in S : x >= y

\* the mutant of BudgetScore: a budget of 0 counts as no budget
BudgetScore_ZeroIsNone(price, max_budget) ==
    IF max_budget.known /\ max_budget.value # 0 /\ price.known
    THEN (IF price.value > max_budget.value THEN 0 ELSE 25)
    ELSE IF max_budget.known /\ max_budget.value # 0 THEN 0
    ELSE 15

\* the budget bucket: 25 within budget, 0 over budget or price unknown, 15
\* when no budget is set
BudgetScore(price, max_budget) ==
    IF max_budget.known /\ price.known
    THEN (IF price.value > max_budget.value THEN 0 ELSE 25)
    ELSE IF max_budget.known THEN 0
    ELSE 15

\* the buckets of the score of products[i]: completeness, budget, relative
\* price, specs, features, preferences
Buckets(products, criteria, i) ==
    LET product == products[i]
        prices == {products[j].price.value : j \in {k \in 1..Len(products) : products[k].price.known}}
        minPrice == IF prices # {} THEN SetMin(prices) ELSE 0
        maxPrice == IF prices # {} THEN SetMax(prices) ELSE 0
        numPrices == Cardinality({k \in 1..Len(products) : products[k].price.known})
        rangeOverflows == maxPrice - minPrice > MaxPrice
        priceRange == IF maxPrice - minPrice = 0 THEN 1 ELSE maxPrice - minPrice
        allSpecKeys == UNION {{toLowerCase(key) : key \in SpecKeysOf(products[j])} : j \in 1..Len(products)}
        totalSpecKeys == IF allSpecKeys = {} THEN 1 ELSE Cardinality(allSpecKeys)
        maxFeatures == SetMax({FeaturesOf(products[j]) : j \in 1..Len(products)} \cup {1})
        specCount == Cardinality(SpecKeysOf(product))
        completeness ==
              (IF product.price.known THEN 8 ELSE 0)
            + (IF HasCurrency(product) THEN 2 ELSE 0)
            + (IF HasBrand(product) THEN 3 ELSE 0)
            + (IF specCount > 0 THEN 4 ELSE 0)
            + (IF FeaturesOf(product) > 0 THEN 3 ELSE 0)
        budgetScore == BudgetScore(product.price, criteria.max_budget)
        \* 1 - (price - minPrice) / priceRange, times 20, rounded; with an
        \* infinite priceRange the quotient is 0, or NaN when the difference
        \* overflows too
        valueScore ==
            IF product.price.known /\ numPrices > 1
            THEN IF rangeOverflows
                 THEN (IF product.price.value - minPrice > MaxPrice THEN NaN ELSE Num(20))
                 ELSE Num(RoundDiv(20 * (priceRange - (product.price.value - minPrice)), priceRange))
            ELSE IF product.price.known THEN Num(10)
            ELSE Num(0)
        specScore == RoundDiv(15 * specCount, totalSpecKeys)
        featureScore == RoundDiv(10 * FeaturesOf(product), maxFeatures)
        prefScore ==
            IF criteria.preferences > 0
            THEN RoundDiv(10 * (IF MatchesPreference(product) THEN criteria.preferences ELSE 0),
                          criteria.preferences)
            ELSE 5
    IN [completeness |-> completeness, budgetScore |-> budgetScore, valueScore |-> valueScore,
        specScore |-> specScore, featureScore |-> featureScore, prefScore |-> prefScore]

\* rawScore: the sum of the buckets
RawScore(products, criteria, i) ==
    LET b == Buckets(products, criteria, i) IN
    IF b.valueScore.nan THEN NaN
    ELSE Num(b.completeness + b.budgetScore + b.valueScore.value + b.specScore
             + b.featureScore + b.prefScore)

\* Math.max(0, Math.min(100, rawScore)); NaN stays NaN
clampScore(raw) ==
    IF raw.nan THEN NaN
    ELSE Num(IF raw.value < 0 THEN 0 ELSE IF raw.value > 100 THEN 100 ELSE raw.value)

\* the comparator (a, b) => b.score - a.score: negative when a goes first; a NaN
\* result counts as 0
Comparator(a, b) == IF a.score.nan \/ b.score.nan THEN 0 ELSE b.score.value - a.score.value

\* Array.prototype.sort with the comparator, stable: every entry is inserted
\* behind the entries that do not compare greater
RECURSIVE Insert(_, _)
Insert(sorted, entry) ==
    IF sorted = <<>> THEN <<entry>>
    ELSE IF Comparator(sorted[Len(sorted)], entry) <= 0
         THEN Append(sorted, entry)
         ELSE Append(Insert(SubSeq(sorted, 1, Len(sorted) - 1), entry), sorted[Len(sorted)])

RECURSIVE sort(_)
sort(entries) ==
    IF entries = <<>> THEN <<>>
    ELSE Insert(sort(SubSeq(entries, 1, Len(entries) - 1)), entries[Len(entries)])

\* the orders of n entries
Orders(n) == {order \in [1..n -> 1..n] : \A i, j \in 1..n : i # j => order[i] # order[j]}

\* products.map(...): one entry per product, in input order; input is the
\* position of the product in the list
Scored(products, criteria) ==
    [i \in 1..Len(products) |-> [input |-> i, score |-> clampScore(RawScore(products, criteria, i)),
                                  buckets |-> Buckets(products, criteria, i)]]

\* compare_products is called on the list.  When a score is NaN the comparator
\* is not consistent and the order sort leaves is up to the engine.
Compare ==
    /\ ~compared.called
    /\ LET entries == Scored(compared.products, compared.criteria)
           n == Len(entries) IN
       IF \A i \in 1..n : ~entries[i].score.nan
       THEN compared' = [compared EXCEPT !.called = TRUE] @@ [ranked |-> sort(entries)]
       ELSE \E order \in Orders(n) :
               compared' = [compared EXCEPT !.called = TRUE] @@
                           [ranked |-> [i \in 1..n |-> entries[order[i]]]]
    /\ UNCHANGED exceptCompare

CompareNext == Compare

\* every product list and criteria, before compare_products is called
CompareInputs ==
    /\ SseInit /\ SearchInit /\ BrowserInit /\ CartInit /\ DispatchInit /\ ExtractInit
    /\ WorkflowInit /\ ClientInit /\ QueryInit /\ GateInit
    /\ \E products \in ProductLists, criteria \in CriteriaInputs :
          compared = NoComparison(products, criteria)

SpecCompare == CompareInputs /\ [][CompareNext]_vars

(***************************************************************************)
(* Claims about product comparison (SpecCompare).                          *)
(***************************************************************************)
\* C20: compareProducts returns exactly one ranked entry per input product,
\* every score is an integer in [0,100], the entries are ordered by score
\* descending, and entries with equal scores keep their input order.
C20_RankedStableDescending ==
    compared.called =>
        LET ranked == compared.ranked
            n == Len(compared.products) IN
        /\ Len(ranked) = n
        /\ \A p \in 1..n : Cardinality({i \in 1..Len(ranked) : ranked[i].input = p}) = 1
        /\ \A i \in 1..Len(ranked) : ~ranked[i].score.nan /\ ranked[i].score.value \in 0..100
        /\ \A i, j \in 1..Len(ranked) :
              i < j => \/ ranked[i].score.value > ranked[j].score.value
                       \/ /\ ranked[i].score.value = ranked[j].score.value
                          /\ ranked[i].input < ranked[j].input

\* the product a ranked entry was computed from
ProductOf(entry) == compared.products[entry.input]

\* C21 as stated: with max_budget = 0 the budget bucket of every product with a
\* non-negative or unknown price is 0.
C21_ZeroBudgetNoAward ==
    (compared.called /\ compared.criteria.max_budget = Price(0)) =>
        \A i \in 1..Len(compared.ranked) :
            (~ProductOf(compared.ranked[i]).price.known
                \/ ProductOf(compared.ranked[i]).price.value >= 0)
            => compared.ranked[i].buckets.budgetScore = 0

\* C21 amended: with max_budget = 0 the budget bucket is 0 for every product
\* with a positive or unknown price, and 25 for a product whose price is 0 or
\* less.
C21_ZeroBudgetAwardOnlyFree ==
    (compared.called /\ compared.criteria.max_budget = Price(0)) =>
        \A i \in 1..Len(compared.ranked) :
            compared.ranked[i].buckets.budgetScore =
                IF ProductOf(compared.ranked[i]).price.known
                     /\ ProductOf(compared.ranked[i]).price.value <= 0
                THEN 25 ELSE 0

\* a comparison with max_budget = 0 of a free product and a priced product
C21_Witness ==
    /\ compared.called
    /\ compared.criteria.max_budget = Price(0)
    /\ \E i, j \in 1..Len(compared.ranked) :
          /\ ProductOf(compared.ranked[i]).price = Price(0)
          /\ compared.ranked[i].buckets.budgetScore = 25
          /\ ProductOf(compared.ranked[j]).price = Price(2)
          /\ compared.ranked[j].buckets.budgetScore = 0

\* C22: every bucket of every product stays within its maximum: completeness
\* in [0,20], budget in [0,25], relative value in [0,20], spec richness in
\* [0,15], feature richness in [0,10], preference match in [0,10].
C22_BucketsWithinMax ==
    compared.called =>
        \A i \in 1..Len(compared.ranked) :
            LET b == compared.ranked[i].buckets IN
            /\ b.completeness \in 0..20
            /\ b.budgetScore \in 0..25
            /\ ~b.valueScore.nan /\ b.valueScore.value \in 0..20
            /\ b.specScore \in 0..15
            /\ b.featureScore \in 0..10
            /\ b.prefScore \in 0..10

(***************************************************************************)
(* The research workflow of the UI (App.tsx, runToolWorkflow).             *)
(***************************************************************************)

\* isRetryableError: the pattern matches the message of the timer and the
\* connection errors, not the error of a tool
RetryableMessages == {"failed to fetch", TimedOut}
isRetryableError_Always(msg) == TRUE
isRetryableError(msg) == msg \in RetryableMessages

\* the waits of callToolWithTimeout before its second and its third attempt
RetryDelays == <<FirstRetryMs, SecondRetryMs>>

\* callToolWithTimeout(tool, args, timeoutMs, label): the first attempt()
NewCall(label, visit) ==
    [label |-> label, visit |-> visit, attempt |-> 1, status |-> "pending",
     error |-> "none", delays |-> <<>>]

\* the catch blocks of callToolWithTimeout: a retryable error of the first or
\* the second attempt is followed by a wait and one more attempt(), every
\* other error is thrown
Caught(msg) ==
    IF isRetryableError(msg) /\ tcall.attempt <= Len(RetryDelays)
    THEN [tcall EXCEPT !.attempt = @ + 1, !.error = msg,
                       !.delays = Append(@, RetryDelays[tcall.attempt])]
    ELSE [tcall EXCEPT !.status = "thrown", !.error = msg]

hasBrowserFallback(tools) == tools.browser
preferBrowserPath(tools) == hasBrowserFallback(tools)

isLikelyListingPageUrl(url) == url.path = "/best"
isLikelyProductUrl(url) == url.path \in {"/p/1", "/p/2", "/p/c"} /\ ~isLikelyListingPageUrl(url)

Elements(seq) == {seq[i] : i \in 1..Len(seq)}

\* the loop over explicitUrls and the loop of doSearch: a URL joins allResults
\* unless seenUrls has it
RECURSIVE AddUnseen(_, _)
AddUnseen(allResults, urls) ==
    IF urls = <<>> THEN allResults
    ELSE AddUnseen(IF urls[1] \in Elements(allResults) THEN allResults
                   ELSE Append(allResults, urls[1]), SubSeq(urls, 2, Len(urls)))

\* byDomain: the hosts in the order of their first result, and the results of a host
Domains(allResults) == Dedupe([i \in 1..Len(allResults) |-> allResults[i].host])
DomainResults(allResults, host) == SelectSeq(allResults, LAMBDA u : u.host = host)

\* the round robin over the domains: pass after pass, a domain gives its
\* result of that pass when it has one
RECURSIVE RoundRobin(_, _, _)
RoundRobin(allResults, pass, d) ==
    LET domains == Domains(allResults) IN
    IF pass > DiversifyPasses THEN <<>>
    ELSE IF d > Len(domains) THEN RoundRobin(allResults, pass + 1, 1)
    ELSE LET domainResults == DomainResults(allResults, domains[d]) IN
         (IF pass <= Len(domainResults) THEN <<domainResults[pass]>> ELSE <<>>)
         \o RoundRobin(allResults, pass, d + 1)

Diversify_InOrder(allResults) == slice(allResults, DiversifyLimit)
Diversify(allResults) == slice(RoundRobin(allResults, 1, 1), DiversifyLimit)

\* the test of both visit loops on totalVisits
VisitAllowed_NoCap(totalVisits) == TRUE
VisitAllowed(totalVisits) == totalVisits < MAX_TOTAL_VISITS

\* the URL extractFromUrl is called with: a result, or a product link of its page
Target(w) == IF w.child = 0 THEN w.results[w.r] ELSE Url(w.results[w.r].host, "/p/c")

\* Array.prototype.sort by a key, descending and stable
SortBy(products, key(_)) ==
    LET sorted == sort([i \in 1..Len(products) |-> [input |-> i, score |-> Num(key(products[i]))]])
    IN [i \in 1..Len(products) |-> products[sorted[i].input]]

Confidence(p) == p.confidence
\* (confidence ?? 0) - (price ?? 9999) / 200, in units of 1 / (100 * 200):
\* the confidence is in units of 1 / 100
FallbackScore(p) ==
    PriceDivisor * p.confidence
        - 100 * (IF p.price.known THEN p.price.value ELSE NoPriceFallback)

\* the final filter, for a prompt that names no budget and no currency and
\* products that are in stock
Valid(extractedProducts) ==
    SelectSeq(extractedProducts,
              LAMBDA p : /\ p.name
                         /\ ~(~p.price.known /\ p.confidence < UnpricedConfidence)
                         /\ p.confidence >= ValidConfidence)

\* the criteria of a prompt without budget, and the ranking compareProducts
\* gives the products
PromptCriteria == [max_budget |-> NoPrice, preferences |-> 0]
EngineRanked(products) ==
    sort(Scored([i \in 1..Len(products) |->
                    [price |-> products[i].price, detail |-> products[i].detail]],
                PromptCriteria))

\* what the compare_products call answers with: the text of the handler,
\* { ranked }, or the text of an error
CompareAnswers(products) == {[ranked |-> EngineRanked(products)], [error |-> "invalid arguments"]}

\* entry.product of an entry of the answer: undefined (Null) when the entry has no such key
ProductField(entry) == IF "product" \in DOMAIN entry THEN entry.product ELSE Null

\* (compare?.ranked || []).map((entry) => entry.product).filter((p) => !!p),
\* and ranked, which is valid unless that list has an element
Reranked(answer, valid) ==
    LET ranked == IF "ranked" \in DOMAIN answer THEN answer.ranked ELSE <<>>
        products == [i \in 1..Len(ranked) |-> ProductField(ranked[i])]
        compared_ == SelectSeq(products, LAMBDA p : p # Null)
    IN IF Len(compared_) > 0 THEN compared_ ELSE valid

Done(w, options) ==
    [w EXCEPT !.pc = "done", !.options = slice(options, OptionsLimit),
              !.path = "none", !.selector = 0]

\* from the filter to the compare_products call; without valid products the
\* best of the extracted ones are returned, without the tool the fallback ranking
Rank(w) ==
    LET valid == Valid(w.extracted)
        softCandidates == SelectSeq(w.extracted, LAMBDA p : p.name /\ p.confidence >= SoftConfidence)
        lastResort == SelectSeq(w.extracted, LAMBDA p : p.name)
    IN IF valid = <<>>
       THEN IF softCandidates # <<>> THEN Done(w, SortBy(softCandidates, Confidence))
            ELSE Done(w, SortBy(lastResort, Confidence))
       ELSE IF ~w.tools.compare THEN Done(w, SortBy(valid, FallbackScore))
       ELSE [w EXCEPT !.pc = "compare_products", !.path = "none", !.selector = 0]

\* the finally block of the visit loop
Finally(w) ==
    IF w.browserStarted THEN [w EXCEPT !.pc = "browser_close", !.path = "none", !.selector = 0]
    ELSE Rank(w)

\* browser_start for the first page of the request, browser_open afterwards
BrowserAcquire(w, path) ==
    IF ~w.browserStarted
    THEN [w EXCEPT !.pc = "browser_start", !.path = path]
    ELSE [w EXCEPT !.pc = "browser_open", !.path = path]

\* extractFromUrl up to its first tool call.  The list of tools has a page
\* acquisition tool, so without the browser tools there is open_page.
extractFromUrl(w) ==
    IF preferBrowserPath(w.tools) /\ hasBrowserFallback(w.tools) THEN BrowserAcquire(w, "prefer")
    ELSE [w EXCEPT !.pc = "open_page", !.path = "open_page"]

\* the head of for (const r of results)
LoopHead(w) ==
    IF w.r = Len(w.results) \/ ~VisitAllowed(w.totalVisits) THEN Finally(w)
    ELSE extractFromUrl([w EXCEPT !.r = @ + 1, !.totalVisits = @ + 1, !.child = 0,
                                  !.childLinks = 0, !.openPageFailed = FALSE,
                                  !.path = "none", !.selector = 0])

\* the head of for (const childUrl of childLinks.slice(0, 5))
ChildHead(w) ==
    IF w.child = w.childLinks \/ ~VisitAllowed(w.totalVisits) THEN LoopHead(w)
    ELSE extractFromUrl([w EXCEPT !.child = @ + 1, !.totalVisits = @ + 1,
                                  !.openPageFailed = FALSE, !.path = "none", !.selector = 0])

\* extractFromUrl throws: the loop of the links goes on; the loop of the
\* results ends when products are at hand and the error is retryable
VisitThrows(w, msg) ==
    IF w.child > 0 THEN ChildHead(w)
    ELSE IF Len(w.extracted) > 0 /\ isRetryableError(msg) THEN Finally(w)
    ELSE LoopHead(w)

\* the catch block around open_page and its extract_product
OpenPageFailed(w) ==
    LET failed == [w EXCEPT !.openPageFailed = TRUE] IN
    IF hasBrowserFallback(w.tools) THEN BrowserAcquire(failed, "fallback")
    ELSE VisitThrows(failed, "No usable page acquisition path")

pushIfUseful(w, candidate) == [w EXCEPT !.extracted = Append(@, candidate)]

\* extractFromUrl returns the product of the page
VisitReturns(w, product, relevant, links) ==
    IF w.child = 0
    THEN LET weakCandidate == \/ ~product.name
                              \/ ~product.price.known
                              \/ product.confidence < WeakConfidence
                              \/ isLikelyListingPageUrl(Target(w))
         IN IF ~weakCandidate
            THEN LoopHead(IF relevant THEN pushIfUseful(w, product) ELSE w)
            ELSE ChildHead([w EXCEPT !.childLinks = Min(links, ChildLinksLimit)])
    ELSE ChildHead(IF product.name /\ relevant THEN pushIfUseful(w, product) ELSE w)

\* tryBrowserInteractions after the cookie banners
AfterClick(w) ==
    IF ~isLikelyProductUrl(Target(w)) THEN [w EXCEPT !.pc = "browser_type", !.selector = 1]
    ELSE [w EXCEPT !.pc = "browser_scroll", !.selector = 0]

\* the tool calls of one workflow that belong to the visit of a candidate
VisitCalls == {"browser_start", "browser_open", "browser_wait_for", "browser_click",
               "browser_type", "browser_scroll", "browser_snapshot", "open_page",
               "extract_product"}

\* the call the workflow awaits at its position
Awaited(w) ==
    IF w.pc = "done" THEN NoCall
    ELSE NewCall(w.pc, IF w.pc \in VisitCalls THEN w.totalVisits ELSE 0)

\* runToolWorkflow up to the first web_search
RunToolWorkflow ==
    /\ wf.pc = "start"
    /\ wf' = [wf EXCEPT !.pc = "web_search", !.search = 1,
                        !.allResults = AddUnseen(<<>>, wf.prompt)]
    /\ tcall' = Awaited(wf')
    /\ UNCHANGED <<stale, launched>>
    /\ UNCHANGED exceptWorkflow

\* the handler of browser_start has run to its end
Launched(label, before) == IF label = "browser_start" THEN {"yes"} ELSE {before}

\* the handler of browser_start has thrown or is still running: chromium.launch
\* may have returned, page.goto not
MayHaveLaunched(label, before) == IF label = "browser_start" THEN {before, "yes"} ELSE {before}

\* callTool resolves before the timer of the attempt
AttemptResolves ==
    /\ tcall.status = "pending"
    /\ tcall' = [tcall EXCEPT !.status = "returned", !.error = "none"]
    /\ launched' \in Launched(tcall.label, launched)
    /\ UNCHANGED <<wf, stale>>
    /\ UNCHANGED exceptWorkflow

\* callTool rejects before the timer of the attempt
AttemptRejects ==
    /\ tcall.status = "pending"
    /\ \E msg \in CallErrors : tcall' = Caught(msg)
    /\ launched' \in MayHaveLaunched(tcall.label, launched)
    /\ UNCHANGED <<wf, stale>>
    /\ UNCHANGED exceptWorkflow

\* the timer of the attempt fires first: the race rejects, the tool call
\* goes on at the server
AttemptTimesOut ==
    /\ tcall.status = "pending"
    /\ tcall' = Caught(TimedOut)
    /\ stale' = stale \cup {IF tcall.visit > 0 THEN "current" ELSE "other"}
    /\ Cardinality(stale') <= MaxStale
    /\ launched' \in MayHaveLaunched(tcall.label, launched)
    /\ UNCHANGED <<wf>>
    /\ UNCHANGED exceptWorkflow

\* a tool call the workflow gave up on ends at the server
StaleSettles ==
    /\ \E calls \in stale : stale' = stale \ {calls}
    /\ UNCHANGED <<wf, tcall, launched>>
    /\ UNCHANGED exceptWorkflow

\* the statements after an awaited callToolWithTimeout, up to the next one
Resumed(w, ok, msg) ==
    CASE w.pc = "web_search" ->
            {IF w.search = 1 /\ Len(allResults) < FewResults
             THEN [w EXCEPT !.search = 2, !.allResults = allResults]
             ELSE LET results == Diversify(allResults) IN
                  IF results = <<>> THEN Done([w EXCEPT !.allResults = allResults], <<>>)
                  ELSE LoopHead([w EXCEPT !.allResults = allResults, !.results = results])
             : allResults \in IF ok THEN {AddUnseen(w.allResults, rs) : rs \in SearchResultInputs}
                              ELSE {w.allResults}}
      [] w.pc \in {"browser_start", "browser_open"} ->
            IF ~ok THEN {VisitThrows(w, msg)}
            ELSE LET started == [w EXCEPT !.browserStarted = TRUE] IN
                 IF w.path = "prefer" THEN {[started EXCEPT !.pc = "browser_wait_for"]}
                 ELSE {[started EXCEPT !.pc = "browser_scroll"]}
      [] w.pc = "browser_wait_for" -> {[w EXCEPT !.pc = "browser_click", !.selector = 1]}
      [] w.pc = "browser_click" ->
            IF ~ok /\ w.selector < CookieSelectors THEN {[w EXCEPT !.selector = @ + 1]}
            ELSE {AfterClick(w)}
      [] w.pc = "browser_type" ->
            IF ~ok /\ w.selector < SearchSelectors THEN {[w EXCEPT !.selector = @ + 1]}
            ELSE {[w EXCEPT !.pc = "browser_scroll", !.selector = 0]}
      [] w.pc = "browser_scroll" ->
            IF ~ok /\ w.path = "fallback" THEN {VisitThrows(w, msg)}
            ELSE {[w EXCEPT !.pc = "browser_snapshot"]}
      [] w.pc = "browser_snapshot" ->
            IF ~ok THEN {VisitThrows(w, msg)}
            ELSE {[w EXCEPT !.pc = "extract_product"], VisitThrows(w, "blocked/error page")}
      [] w.pc = "open_page" ->
            IF ~ok THEN {OpenPageFailed(w)}
            ELSE {[w EXCEPT !.pc = "extract_product"], OpenPageFailed(w)}
      [] w.pc = "extract_product" ->
            IF ~ok THEN {IF w.path = "open_page" THEN OpenPageFailed(w) ELSE VisitThrows(w, msg)}
            ELSE {VisitReturns(w, product, relevant, links) :
                     product \in ExtractResults, relevant \in BOOLEAN, links \in ChildLinkInputs}
      [] w.pc = "browser_close" -> {Rank(w)}
      [] w.pc = "compare_products" ->
            LET valid == Valid(w.extracted) IN
            IF ~ok THEN {Done(w, SortBy(valid, FallbackScore))}
            ELSE {Done(w, Reranked(answer, valid)) : answer \in CompareAnswers(valid)}

\* the calls of the visit in progress are calls of an earlier visit once the
\* next visit begins
Aged(calls) == IF "current" \in calls THEN (calls \ {"current"}) \cup {"earlier"} ELSE calls

\* the await of a callToolWithTimeout ends, by its value or by its error
Resume ==
    /\ tcall.status \in {"returned", "thrown"}
    /\ \E w \in Resumed(wf, tcall.status = "returned", tcall.error) :
          /\ Len(w.extracted) <= MaxExtracted
          /\ wf' = w
          /\ tcall' = Awaited(w)
          /\ stale' = IF w.totalVisits = wf.totalVisits THEN stale ELSE Aged(stale)
          /\ launched' = IF w.pc = "browser_close" /\ launched = "yes" THEN "closing" ELSE launched
    /\ UNCHANGED exceptWorkflow

WorkflowNext ==
    \/ RunToolWorkflow
    \/ AttemptResolves
    \/ AttemptRejects
    \/ AttemptTimesOut
    \/ StaleSettles
    \/ Resume

\* every tool list and prompt, before runToolWorkflow is called
WorkflowInputs ==
    /\ SseInit /\ SearchInit /\ BrowserInit /\ CartInit /\ DispatchInit /\ ExtractInit
    /\ CompareInit /\ ClientInit /\ QueryInit /\ GateInit
    /\ \E tools \in ToolSets, prompt \in PromptInputs : wf = NewWorkflow(tools, prompt)
    /\ tcall = NoCall
    /\ stale = {}
    /\ launched = "no"

SpecWorkflow == WorkflowInputs /\ [][WorkflowNext]_vars

\* C23: in one run of the workflow the number of candidate page visits, the
\* top-level candidates and the product links followed from their pages
\* counted together, never exceeds 15; no tool call is issued for a visit
\* beyond the 15th.
C23_VisitCap ==
    /\ wf.totalVisits <= MAX_TOTAL_VISITS
    /\ tcall.visit <= MAX_TOTAL_VISITS

\* a run that ended on the cap: the 15th visit was made and product links of
\* the page were left unvisited
C23_Witness ==
    /\ wf.pc = "done"
    /\ wf.totalVisits = MAX_TOTAL_VISITS
    /\ wf.child < wf.childLinks

\* C24: every URL literal of the prompt is visited before any candidate that
\* came from web_search: a visited web_search candidate has every URL of the
\* prompt in front of it in the visit order, also when the prompt holds several
\* URLs of one host.
C24_ExplicitFirst ==
    \A j \in 1..wf.r :
        wf.results[j] \notin Elements(wf.prompt) =>
            \A u \in Elements(wf.prompt) : \E i \in 1..(j - 1) : wf.results[i] = u

\* C25: when candidates pass the final filter and the compare_products tool is
\* available, the options returned are the first 3 of the candidates in the
\* order compare_products ranks them, by descending score.
C25_TopOfEngineRanking ==
    LET valid == Valid(wf.extracted)
        ranked == EngineRanked(valid) IN
    (wf.pc = "done" /\ wf.tools.compare /\ valid # <<>>) =>
        wf.options = slice([i \in 1..Len(ranked) |-> valid[ranked[i].input]], OptionsLimit)

\* C28: candidate visits are strictly sequential: while a tool call of a visit
\* is outstanding, no tool call issued for an earlier visit is still running at
\* the server, the calls whose client-side timeout has fired included.
C28_VisitsSequential ==
    (tcall.status = "pending" /\ tcall.visit > 0) => "earlier" \notin stale

\* C29: when open_page is available, browser_start or browser_open is called
\* for a candidate only after open_page has failed for that candidate.
C29_OpenPageFirst ==
    (tcall.label \in {"browser_start", "browser_open"} /\ wf.tools.open_page) =>
        wf.openPageFailed

\* C30: the retry policy of one tool call: at most 3 attempts; the second
\* attempt follows a wait of 2 s and the third a wait of 3 s; an attempt is
\* repeated only after a retryable error, a retryable error is thrown only by
\* the third attempt, and any other error is thrown by the attempt it ended.
C30_RetryPolicy ==
    tcall.status # "idle" =>
        /\ tcall.attempt \in 1..3
        /\ tcall.delays = SubSeq(<<2000, 3000>>, 1, tcall.attempt - 1)
        /\ (tcall.status = "pending" /\ tcall.attempt > 1) => tcall.error \in RetryableMessages
        /\ (tcall.status = "thrown" /\ tcall.error \in RetryableMessages) => tcall.attempt = 3

\* a call retried twice and given up after its third timeout
C30_Witness ==
    /\ tcall.status = "thrown"
    /\ tcall.attempt = 3
    /\ tcall.error = TimedOut
    /\ tcall.delays = <<FirstRetryMs, SecondRetryMs>>

(***************************************************************************)
(* The MCP client of the extension (background.ts).                        *)
(***************************************************************************)

\* connectSSE up to its fetch: the last connection is aborted, the session
\* is forgotten and a new AbortController made
connectSSE ==
    /\ nextConn \in Conns
    /\ conn' = [c \in Conns |->
                   IF c = nextConn THEN [NoConn EXCEPT !.pc = "fetch"]
                   ELSE IF c = sseAbort THEN [conn[c] EXCEPT !.aborted = TRUE]
                   ELSE conn[c]]
    /\ sseAbort' = nextConn
    /\ streamEnd' = "no"
    /\ nextConn' = nextConn + 1
    /\ sessionId' = Null
    /\ connected' = FALSE

\* the rest of connectSSE is over for the connection
Over(c) == conn' = [conn EXCEPT ![c].pc = "over"]

\* the catch block of connectSSE: it looks at the signal of sseAbort, the
\* controller of the last connectSSE call
Catch ==
    IF sseAbort # Null /\ conn[sseAbort].aborted
    THEN UNCHANGED <<connected, reconnects>>
    ELSE connected' = FALSE /\ reconnects' = reconnects + 1

\* a message mcp:reconnect, or mcp:tools.list / mcp:tools.call while not connected
ConnectSSE ==
    /\ connectSSE
    /\ UNCHANGED <<nextJsonRpcId, pendingRequests, reconnects, rpc>>
    /\ UNCHANGED exceptClient

\* a timer setTimeout(connectSSE, ..) fires
ReconnectTimerFires ==
    /\ reconnects > 0
    /\ reconnects' = reconnects - 1
    /\ connectSSE
    /\ UNCHANGED <<nextJsonRpcId, pendingRequests, rpc>>
    /\ UNCHANGED exceptClient

\* fetch(/mcp) resolves: with a stream, or with a status that is not ok
FetchResolves(c) ==
    /\ conn[c].pc = "fetch" /\ ~conn[c].aborted
    /\ \E ok \in BOOLEAN :
          IF ok THEN conn' = [conn EXCEPT ![c].pc = "initialRead"] /\ UNCHANGED streamEnd
          ELSE Over(c) /\ UNCHANGED streamEnd
    /\ UNCHANGED <<sessionId, sseAbort, connected, nextJsonRpcId, pendingRequests, nextConn,
                   reconnects, rpc>>
    /\ UNCHANGED exceptClient

\* fetch(/mcp) rejects: the server is not reachable, or the signal was aborted
FetchRejects(c) ==
    /\ conn[c].pc = "fetch"
    /\ Over(c) /\ UNCHANGED streamEnd
    /\ Catch
    /\ UNCHANGED <<sessionId, sseAbort, nextJsonRpcId, pendingRequests, nextConn, rpc>>
    /\ UNCHANGED exceptClient

\* initialRead finds the endpoint event; read() is started
InitialReadEndpoint(c) ==
    /\ conn[c].pc = "initialRead" /\ ~conn[c].aborted
    /\ sessionId' = c
    /\ connected' = TRUE
    /\ conn' = [conn EXCEPT ![c].pc = "read"]
    /\ UNCHANGED <<streamEnd, sseAbort, nextJsonRpcId, pendingRequests, nextConn, reconnects, rpc>>
    /\ UNCHANGED exceptClient

\* initialRead leaves its loop without the endpoint event: the stream is
\* done, or the signal is aborted and read() rejects at once
InitialReadDone(c) ==
    /\ conn[c].pc = "initialRead"
    /\ Over(c) /\ UNCHANGED streamEnd
    /\ UNCHANGED <<sessionId, sseAbort, connected, nextJsonRpcId, pendingRequests, nextConn,
                   reconnects, rpc>>
    /\ UNCHANGED exceptClient

\* reader.read() of initialRead rejects
InitialReadRejects(c) ==
    /\ conn[c].pc = "initialRead"
    /\ Over(c) /\ UNCHANGED streamEnd
    /\ Catch
    /\ UNCHANGED <<sessionId, sseAbort, nextJsonRpcId, pendingRequests, nextConn, rpc>>
    /\ UNCHANGED exceptClient

\* resolve and reject of the promise of a request: a settled promise stays as it is
Settle(requests, key, outcome) ==
    IF requests[key].promise = "pending" THEN [requests EXCEPT ![key].promise = outcome]
    ELSE requests

\* handleSSEMessage(msg)
handleSSEMessage_KeepEntry(id, kind) ==
    /\ IF String(id) \in pendingRequests
       THEN rpc' = Settle(rpc, String(id), IF kind = "error" THEN "rejected" ELSE "resolved")
       ELSE UNCHANGED rpc
    /\ UNCHANGED pendingRequests
handleSSEMessage(id, kind) ==
    IF String(id) \in pendingRequests
    THEN /\ pendingRequests' = pendingRequests \ {String(id)}
         /\ rpc' = Settle(rpc, String(id), IF kind = "error" THEN "rejected" ELSE "resolved")
    ELSE UNCHANGED <<pendingRequests, rpc>>

\* read() parses a data line with an id out of the stream
Frame(c, id, kind) ==
    /\ conn[c].pc = "read" /\ ~conn[c].aborted
    /\ handleSSEMessage(id, kind)
    /\ UNCHANGED <<sessionId, sseAbort, connected, nextJsonRpcId, conn, streamEnd, nextConn,
                   reconnects>>
    /\ UNCHANGED exceptClient

\* the stream is done: read() leaves its loop and resolves
ReadDone(c) ==
    /\ conn[c].pc = "read" /\ ~conn[c].aborted
    /\ Over(c)
    /\ streamEnd' = IF c = sseAbort THEN "eof" ELSE streamEnd
    /\ UNCHANGED <<sessionId, sseAbort, connected, nextJsonRpcId, pendingRequests, nextConn,
                   reconnects, rpc>>
    /\ UNCHANGED exceptClient

\* reader.read() of read() rejects: the handler of read().catch
ReadRejects(c) ==
    /\ conn[c].pc = "read"
    /\ IF conn[c].aborted
       THEN Over(c) /\ UNCHANGED <<connected, reconnects, streamEnd>>
       ELSE /\ Over(c) /\ connected' = FALSE /\ reconnects' = reconnects + 1
            /\ streamEnd' = IF c = sseAbort THEN "error" ELSE streamEnd
    /\ UNCHANGED <<sessionId, sseAbort, nextJsonRpcId, pendingRequests, nextConn, rpc>>
    /\ UNCHANGED exceptClient

\* sendJsonRpc with a session: the id is taken, the entry made, the timer
\* set and the POST sent
sendJsonRpc ==
    /\ sessionId # Null
    /\ nextJsonRpcId \in RpcIds
    /\ nextJsonRpcId' = nextJsonRpcId + 1
    /\ pendingRequests' = pendingRequests \cup {nextJsonRpcId}
    /\ rpc' = [rpc EXCEPT ![nextJsonRpcId] =
                  [promise |-> "pending", post |-> "sent", timer |-> "set"]]
    /\ UNCHANGED <<sessionId, sseAbort, connected, conn, streamEnd, nextConn, reconnects>>
    /\ UNCHANGED exceptClient

\* the POST is answered: nothing is done for a 2xx status; any other status
\* clears the timer, deletes the entry and rejects
PostResponds(key) ==
    /\ rpc[key].post = "sent"
    /\ \E ok \in BOOLEAN :
          IF ok THEN /\ rpc' = [rpc EXCEPT ![key].post = "done"]
                     /\ UNCHANGED pendingRequests
          ELSE /\ rpc' = [Settle(rpc, key, "rejected") EXCEPT ![key].post = "done",
                                                               ![key].timer = "none"]
               /\ pendingRequests' = pendingRequests \ {key}
    /\ UNCHANGED <<sessionId, sseAbort, connected, nextJsonRpcId, conn, streamEnd, nextConn,
                   reconnects>>
    /\ UNCHANGED exceptClient

\* the POST fails: the timer is cleared, the entry deleted, the promise rejected
PostFails(key) ==
    /\ rpc[key].post = "sent"
    /\ rpc' = [Settle(rpc, key, "rejected") EXCEPT ![key].post = "done", ![key].timer = "none"]
    /\ pendingRequests' = pendingRequests \ {key}
    /\ UNCHANGED <<sessionId, sseAbort, connected, nextJsonRpcId, conn, streamEnd, nextConn,
                   reconnects>>
    /\ UNCHANGED exceptClient

\* the timer of the request fires, 60 s after the call
RequestTimerFires(key) ==
    /\ rpc[key].timer = "set"
    /\ IF key \in pendingRequests
       THEN /\ pendingRequests' = pendingRequests \ {key}
            /\ rpc' = [Settle(rpc, key, "rejected") EXCEPT ![key].timer = "none"]
       ELSE /\ rpc' = [rpc EXCEPT ![key].timer = "none"]
            /\ UNCHANGED pendingRequests
    /\ UNCHANGED <<sessionId, sseAbort, connected, nextJsonRpcId, conn, streamEnd, nextConn,
                   reconnects>>
    /\ UNCHANGED exceptClient

ClientNext ==
    \/ ConnectSSE
    \/ ReconnectTimerFires
    \/ \E c \in Conns : FetchResolves(c)
    \/ \E c \in Conns : FetchRejects(c)
    \/ \E c \in Conns : InitialReadEndpoint(c)
    \/ \E c \in Conns : InitialReadDone(c)
    \/ \E c \in Conns : InitialReadRejects(c)
    \/ \E c \in Conns, id \in FrameIds, kind \in FrameKinds : Frame(c, id, kind)
    \/ \E c \in Conns : ReadDone(c)
    \/ \E c \in Conns : ReadRejects(c)
    \/ sendJsonRpc
    \/ \E key \in RpcIds : PostResponds(key)
    \/ \E key \in RpcIds : PostFails(key)
    \/ \E key \in RpcIds : RequestTimerFires(key)

SpecClient == Init /\ [][ClientNext]_vars

\* the timers of the worker fire
SpecClientLive ==
    /\ SpecClient
    /\ WF_vars(ReconnectTimerFires)
    /\ \A key \in RpcIds : WF_vars(RequestTimerFires(key))

\* C26: the bookkeeping of the requests.  The ids handed out are 1, 2, ..
\* in the order of the calls, none twice; a request that has settled has no
\* entry in the table and stays settled as it is, and one with an entry has
\* not settled; a frame whose id has no entry changes neither the table nor a
\* promise; and no request stays pending for ever.
C26_Bookkeeping ==
    /\ [](\A key \in RpcIds :
            /\ (rpc[key].promise # "none") <=> (key < nextJsonRpcId)
            /\ (rpc[key].promise \in {"resolved", "rejected"}) => key \notin pendingRequests
            /\ (key \in pendingRequests) => rpc[key].promise = "pending")
    /\ [][/\ nextJsonRpcId' >= nextJsonRpcId
          /\ \A key \in RpcIds :
                rpc[key].promise \in {"resolved", "rejected"} =>
                    rpc'[key].promise = rpc[key].promise
          /\ \A c \in Conns, id \in FrameIds, kind \in FrameKinds :
                (Frame(c, id, kind) /\ String(id) \notin pendingRequests) =>
                    UNCHANGED <<pendingRequests, rpc>>]_vars
    /\ \A key \in RpcIds : <>[](rpc[key].promise # "pending")

\* the second request is resolved by a frame while the first, settled by its
\* timer, has left the table
C26_Witness ==
    /\ nextJsonRpcId = 3
    /\ rpc[1].promise = "rejected" /\ rpc[1].timer = "none" /\ rpc[1].post = "done"
    /\ rpc[2].promise = "resolved" /\ rpc[2].timer = "set"
    /\ pendingRequests = {}

\* the stream of the connection has ended after its endpoint event, without
\* an abort, and no connectSSE was called since
EndedUnaborted(c) == sseAbort = c /\ streamEnd \in {"eof", "error"}

\* C27: whenever the SSE stream of a connected client ends without the client
\* having aborted it, by a read error or by the end of the stream, the client
\* marks itself not connected and eventually calls connectSSE again.
C27_ReconnectAfterEnd ==
    \A c \in 1..(MaxConns - 1) :
        /\ [](EndedUnaborted(c) => ~connected)
        /\ EndedUnaborted(c) ~> (sseAbort # c)

\* the call awaited by extractFromUrl has thrown a retryable error that
\* extractFromUrl does not catch, and a product has been extracted before
VisitFailsRetryable ==
    /\ tcall.status = "thrown"
    /\ tcall.error \in RetryableMessages
    /\ \/ wf.pc \in {"browser_start", "browser_open", "browser_snapshot"}
       \/ wf.pc = "extract_product" /\ wf.path # "open_page"
    /\ Len(wf.extracted) > 0

\* C31: when the visit of a page, of a top-level candidate or of a followed
\* product link, fails with a retryable error after a product has been
\* extracted, no further page is visited in the run: the run goes on to its
\* cleanup and its ranking with the products it has.
C31_EarlyStop ==
    [][(Resume /\ VisitFailsRetryable) =>
          /\ wf'.totalVisits = wf.totalVisits
          /\ wf'.extracted = wf.extracted
          /\ wf'.pc \in {"browser_close", "compare_products", "done"}]_vars

\* the same for the visits of the top-level candidates alone
C31_EarlyStopTopLevel ==
    [][(Resume /\ VisitFailsRetryable /\ wf.child = 0) =>
          /\ wf'.totalVisits = wf.totalVisits
          /\ wf'.extracted = wf.extracted
          /\ wf'.pc \in {"browser_close", "compare_products", "done"}]_vars

(***************************************************************************)
(* App.tsx: the query of web_search.  A prompt is the sequence of its      *)
(* tokens in lower case; the three replaces of getQueryTerms work on       *)
(* neighbouring tokens, as their patterns do on the text.                  *)
(***************************************************************************)

\* replace(/(?:under|below|..)\s*[$]?\s*\d[\d,.]*\b/gi, ' ')
RECURSIVE StripBudgetClauses(_)
StripBudgetClauses(tokens) ==
    IF tokens = <<>> THEN <<>>
    ELSE IF /\ Len(tokens) >= 2
            /\ tokens[1] \in BudgetWords
            /\ tokens[2] \in Numbers \cup CurrencyAmounts
         THEN StripBudgetClauses(Tail(Tail(tokens)))
         ELSE <<tokens[1]>> \o StripBudgetClauses(Tail(tokens))

\* replace(/[$]\s*\d[\d,.]*\b/g, ' ')
StripCurrencyAmounts(tokens) == SelectSeq(tokens, LAMBDA t : t \notin CurrencyAmounts)

\* replace(/\b\d{2,5}(?:\.\d{1,2})?\s*(?:dollars?|usd|..)\b/gi, ' ')
RECURSIVE StripAmountsWithUnit(_)
StripAmountsWithUnit(tokens) ==
    IF tokens = <<>> THEN <<>>
    ELSE IF /\ Len(tokens) >= 2
            /\ tokens[1] \in Numbers
            /\ tokens[2] \in CurrencyUnits
         THEN StripAmountsWithUnit(Tail(Tail(tokens)))
         ELSE <<tokens[1]>> \o StripAmountsWithUnit(Tail(tokens))

\* replace(/[^a-z0-9\s-]/g, ' ') and split: a currency sign falls off its amount
RECURSIVE SplitWords(_)
SplitWords(tokens) ==
    IF tokens = <<>> THEN <<>>
    ELSE (IF tokens[1] = "$500" THEN <<"500">> ELSE <<tokens[1]>>) \o SplitWords(Tail(tokens))

\* a getQueryTerms that keeps the numbers
getQueryTerms_KeepNumbers(query) ==
    SelectSeq(SplitWords(StripAmountsWithUnit(StripCurrencyAmounts(StripBudgetClauses(query)))),
              LAMBDA w : Len(w) >= MinTermLength /\ w \notin STOP_WORDS)

getQueryTerms(query) ==
    SelectSeq(SplitWords(StripAmountsWithUnit(StripCurrencyAmounts(StripBudgetClauses(query)))),
              LAMBDA w : Len(w) >= MinTermLength /\ w \notin STOP_WORDS /\ w \notin Numbers)

\* the length of words.join(' ')
RECURSIVE JoinLength(_)
JoinLength(words) ==
    IF words = <<>> THEN 0
    ELSE IF Len(words) = 1 THEN Len(words[1])
    ELSE Len(words[1]) + 1 + JoinLength(Tail(words))

\* searchTerms.length >= 3 ? searchTerms : query.trim()
cleanQuery(query) ==
    LET searchTerms == getQueryTerms(query) IN
    IF JoinLength(searchTerms) >= MinQueryLength THEN searchTerms ELSE query

\* `${cleanQuery} buy`
baseQuery(query) == Append(cleanQuery(query), "buy")

\* runToolWorkflow from the prompt to the query of its first web_search
BuildQuery ==
    /\ ~built.done
    /\ built' = [built EXCEPT !.baseQuery = baseQuery(built.query), !.done = TRUE]
    /\ UNCHANGED exceptQuery

QueryNext == BuildQuery

\* every prompt, before runToolWorkflow is called with it
QueryInputStates ==
    /\ SseInit /\ SearchInit /\ BrowserInit /\ CartInit /\ DispatchInit /\ ExtractInit
    /\ CompareInit /\ WorkflowInit /\ ClientInit /\ GateInit
    /\ \E query \in QueryInputs : built = NoQuery(query)

SpecQuery == QueryInputStates /\ [][QueryNext]_vars

\* the words of the query that come from the prompt: all but the appended one
FromPrompt(q) == SubSeq(q, 1, Len(q) - 1)

\* a word the claim keeps out of the query
Leaked(w) ==
    \/ w \in Numbers
    \/ w \in CurrencyAmounts
    \/ w \in STOP_WORDS
    \/ Len(w) < MinTermLength

\* C32: the query sent to web_search holds no word of the prompt that is
\* digits only, a stop word or shorter than 2 characters, and no budget
\* amount of the prompt.
C32_NoLeak ==
    built.done =>
        \A i \in 1..Len(FromPrompt(built.baseQuery)) : ~Leaked(FromPrompt(built.baseQuery)[i])

\* the same for the prompts whose terms make a query of 3 characters or more
C32_NoLeakFromTerms ==
    (built.done /\ JoinLength(getQueryTerms(built.query)) >= MinQueryLength) =>
        \A i \in 1..Len(FromPrompt(built.baseQuery)) : ~Leaked(FromPrompt(built.baseQuery)[i])

\* C33: a run of the workflow does not end while a browser that one of its
\* browser_start calls launched on the server has had no browser_close called
\* for it, however the run ends and also when the browser_start timed out at
\* the client.
C33_BrowserReleased == wf.pc = "done" => launched # "yes"

\* the same for the runs whose browser_start calls all returned in time
C33_ReleasedAfterStartReturned == (wf.pc = "done" /\ wf.browserStarted) => launched = "closing"

\* a GET /mcp handler is between two of its steps
GetMidStep == \E r \in Reqs : req[r].pc \in {"getTeardownAwait", "connectAwait"}

\* what GET /health answers
hasActiveTransport == activeTransport # Null
sseConnectionAlive == activeSseResponse # Null /\ sess[activeSseResponse].stream = "open"

\* C34: whenever activeTransport is null and no GET /mcp handler is between
\* two of its steps, keepaliveTimer and activeSseResponse are null too, also
\* after server.connect failed; /health never answers sseConnectionAlive true
\* with hasActiveTransport false.
C34_NothingSurvivesTheSession ==
    (~hasActiveTransport /\ ~GetMidStep) =>
        /\ keepaliveTimer = Null
        /\ activeSseResponse = Null
        /\ ~sseConnectionAlive

\* the same while no server.connect has failed
C34_NothingSurvivesUnlessConnectFails ==
    (~hasActiveTransport /\ ~GetMidStep /\ \A r \in Reqs : req[r].err # "connect") =>
        /\ keepaliveTimer = Null
        /\ activeSseResponse = Null
        /\ ~sseConnectionAlive

\* C35: a close listener or transport.onclose that runs for a session while
\* another session is the active one changes none of activeTransport,
\* activeSessionId, activeSseResponse and keepaliveTimer, however the events
\* of the old session and the GET /mcp of the new one interleave.
C35_LateCleanupLeavesNewSession ==
    [][\A s \in Sessions :
          ((ResClose(s) \/ TransportOnclose(s)) /\ activeTransport \notin {Null, s}) =>
              UNCHANGED sessVars]_vars

\* a handler of a replaced session has run while its successor was active, and
\* the successor is still whole
C35_Witness ==
    /\ cleanup.late # Null
    /\ activeTransport \notin {Null, cleanup.late}
    /\ activeSessionId = SessionIdOf(activeTransport)
    /\ activeSseResponse = activeTransport
    /\ keepaliveTimer = activeTransport
    /\ sess[activeTransport].stream = "open"
    /\ sess[cleanup.late].closeCalls = 1

\* C36: a POST /messages that has passed the check of the active transport is
\* handed to a transport that is the active one at the hand-off, or answered
\* 404; a session that closes or is torn down while the body is read never
\* makes the handler call handlePostMessage on null and answer 500.
C36_HandOffToActiveTransport ==
    (post.pc = "done" /\ post.saw # Null /\ post.err # "BadJson") =>
        /\ post.err # "NullTransport"
        /\ post.routed # Null \/ post.status = 404

\* the rest of connectSSE runs for a connection
Ends(c) == FetchRejects(c) \/ InitialReadDone(c) \/ InitialReadRejects(c) \/ ReadRejects(c)

\* C37: a connection attempt whose AbortController was aborted by a newer
\* connectSSE call ends as an intentional disconnect: it starts no reconnect
\* timer and changes neither connected nor sessionId, so the connection of
\* the newer call is not torn down by it later.
C37_SupersededAttemptIsSilent ==
    [][\A c \in Conns :
          (conn[c].aborted /\ Ends(c)) => UNCHANGED <<connected, sessionId, reconnects>>]_vars

\* the same for the attempts that were superseded after their initialRead
C37_SupersededReadIsSilent ==
    [][\A c \in Conns :
          (conn[c].aborted /\ ReadRejects(c)) => UNCHANGED <<connected, sessionId, reconnects>>]_vars

(***************************************************************************)
(* The permission gate of the web agent: CapabilityManager, PermissionGate *)
(* and the panel that shows a permission request and answers it.  The      *)
(* tool calls are those of WebAgent.executePlan and WebAgent.callTool with *)
(* a registered tool and a valid input.                                    *)
(***************************************************************************)

\* a canUseTool that lets every tier use every tool
canUseTool_Any(requestedTier, toolTier) == TRUE

canUseTool(requestedTier, toolTier) == requestedTier >= toolTier

\* scopeForTier, as the list ensureScopes is called with
scopeForTier(tier) ==
    CASE tier = NAVIGATOR -> {"browser:interact"}
      [] tier = ACTOR -> {"browser:control"}
      [] OTHER -> {}

hasTimeBoundAccess(tabId) == tabAccess[tabId] # 0 /\ gateNow < tabAccess[tabId]

grantTimeBoundAccess(tabId, ttlMs) ==
    tabAccess' = [tabAccess EXCEPT ![tabId] = gateNow + ttlMs]

hasScopeAccess(tabId, scopes) ==
    IF scopes = {} THEN TRUE
    ELSE LET entry == scopeAccess[tabId] IN
         IF entry.expiresAt = 0 \/ gateNow >= entry.expiresAt THEN FALSE
         ELSE scopes \subseteq entry.scopes

grantScopeAccess(tabId, scopes, ttlMs) ==
    IF ttlMs = 0 THEN UNCHANGED scopeAccess
    ELSE scopeAccess' = [scopeAccess EXCEPT ![tabId] =
                            [scopes |-> scopes, expiresAt |-> gateNow + ttlMs]]

\* the gate sends a permission_request; showPermission of the panel stores it
\* in place of the request it showed
SendRequest(entry, tabId) ==
    /\ nextRequestId \in RequestIds
    /\ pending' = [pending EXCEPT ![nextRequestId] = entry]
    /\ panelRequest' = [requestId |-> nextRequestId, tabId |-> tabId]
    /\ nextRequestId' = nextRequestId + 1

\* tool.handler is invoked
Invoke(rec, by) == [rec EXCEPT !.pc = "handler", !.approvedBy = by, !.handlerRan = TRUE]

Refuse(rec, error) == [rec EXCEPT !.pc = "done", !.error = error]

\* confirmAction, up to its answer or to the permission_request it sends
confirmAction(rec) ==
    IF rec.tier = ORACLE
    THEN gcall' = Invoke(rec, "oracle") /\ UNCHANGED <<pending, panelRequest, nextRequestId>>
    ELSE IF hasTimeBoundAccess(rec.tabId)
    THEN gcall' = Invoke(rec, "grant") /\ UNCHANGED <<pending, panelRequest, nextRequestId>>
    ELSE /\ SendRequest([NoEntry EXCEPT !.kind = "action"], rec.tabId)
         /\ gcall' = [rec EXCEPT !.pc = "confirmAction", !.requestId = nextRequestId,
                                 !.prompted = TRUE]

\* a step of executePlan: assertTierAllowed, then confirmAction
GatePlanStep(tabId, planTier, toolTier) ==
    /\ gcall.pc = "idle"
    /\ LET rec == [IdleGCall EXCEPT !.via = "executePlan", !.tabId = tabId,
                                    !.tier = toolTier, !.planTier = planTier] IN
       IF ~canUseTool(planTier, toolTier)
       THEN gcall' = Refuse(rec, "TierNotAllowed")
            /\ UNCHANGED <<pending, panelRequest, nextRequestId>>
       ELSE confirmAction(rec)
    /\ UNCHANGED <<gateNow, tabAccess, scopeAccess>>
    /\ UNCHANGED exceptGate

\* callTool: ensureScopes for mcp:tools.call and for the scope of the tool's
\* tier, then confirmAction
GateCallTool(tabId, toolTier) ==
    /\ gcall.pc = "idle"
    /\ LET rec == [IdleGCall EXCEPT !.via = "callTool", !.tabId = tabId, !.tier = toolTier] IN
       IF \/ ~hasScopeAccess(tabId, {"mcp:tools.call"})
          \/ ~hasScopeAccess(tabId, scopeForTier(toolTier))
       THEN gcall' = Refuse(rec, "MissingScopes")
            /\ UNCHANGED <<pending, panelRequest, nextRequestId>>
       ELSE confirmAction(rec)
    /\ UNCHANGED <<gateNow, tabAccess, scopeAccess>>
    /\ UNCHANGED exceptGate

\* requestScopes for scopes the tab does not hold
requestScopes(tabId, scopes) ==
    /\ ~hasScopeAccess(tabId, scopes)
    /\ SendRequest([kind |-> "scopes", tabId |-> tabId, scopes |-> scopes], tabId)
    /\ UNCHANGED <<gateNow, tabAccess, scopeAccess, gcall>>
    /\ UNCHANGED exceptGate

\* handlePermissionResponse(message)
handlePermissionResponse(message) ==
    LET entry == pending[message.requestId] IN
    IF entry.kind = "none" THEN UNCHANGED <<pending, scopeAccess, tabAccess, gcall>>
    ELSE /\ pending' = [pending EXCEPT ![message.requestId] = NoEntry]
         /\ IF message.approved /\ entry.kind = "scopes" /\ message.tabId # Null
            THEN grantScopeAccess(message.tabId, entry.scopes, message.ttlMs)
            ELSE UNCHANGED scopeAccess
         /\ IF message.approved /\ message.ttlMs # 0 /\ message.tabId # Null
            THEN grantTimeBoundAccess(message.tabId, message.ttlMs)
            ELSE UNCHANGED tabAccess
         /\ IF entry.kind = "action" /\ gcall.requestId = message.requestId
            THEN gcall' = IF message.approved THEN Invoke(gcall, "user")
                          ELSE Refuse(gcall, "UserDenied")
            ELSE UNCHANGED gcall

\* a button of the panel is clicked: respond(approved, ttlMs)
Respond(answer) ==
    /\ panelRequest # NoRequest
    /\ handlePermissionResponse([requestId |-> panelRequest.requestId,
                                 tabId |-> panelRequest.tabId,
                                 approved |-> answer.approved, ttlMs |-> answer.ttlMs])
    /\ panelRequest' = NoRequest
    /\ UNCHANGED <<gateNow, nextRequestId>>
    /\ UNCHANGED exceptGate

\* the handler has settled, or the caller has taken the refusal
GateReturns ==
    /\ gcall.pc \in {"handler", "done"}
    /\ gcall' = IdleGCall
    /\ UNCHANGED <<gateNow, tabAccess, scopeAccess, pending, nextRequestId, panelRequest>>
    /\ UNCHANGED exceptGate

\* time passes
GateTick ==
    /\ gateNow + GateTickMs <= MaxGateNow
    /\ gateNow' = gateNow + GateTickMs
    /\ UNCHANGED <<tabAccess, scopeAccess, pending, nextRequestId, panelRequest, gcall>>
    /\ UNCHANGED exceptGate

GateNext ==
    \/ \E tabId \in Tabs, planTier \in Tiers, toolTier \in Tiers :
          GatePlanStep(tabId, planTier, toolTier)
    \/ \E tabId \in Tabs, toolTier \in Tiers : GateCallTool(tabId, toolTier)
    \/ \E tabId \in Tabs, scopes \in ScopeRequests : requestScopes(tabId, scopes)
    \/ \E answer \in PanelAnswers : Respond(answer)
    \/ GateReturns
    \/ GateTick

SpecGate == Init /\ [][GateNext]_vars

\* C38: the handler of a Navigator or Actor tool is invoked only after
\* confirmAction answered true for the call: by the user's approval of the
\* request the call sent, or by the tab's time-bound access that had not
\* expired when it was looked up; in executePlan the tier of the plan is at
\* least the tier of the tool.  A call that was denied, or refused for its
\* tier or its scopes, does not invoke the handler.
C38_HandlerOnlyAfterApproval ==
    /\ [](/\ (gcall.handlerRan /\ gcall.tier # ORACLE) =>
                /\ gcall.approvedBy \in {"user", "grant"}
                /\ gcall.approvedBy = "user" <=> gcall.prompted
                /\ gcall.via = "executePlan" => gcall.planTier >= gcall.tier
          /\ gcall.error # "" => ~gcall.handlerRan)
    /\ [][(gcall'.handlerRan /\ ~gcall.handlerRan /\ gcall'.tier # ORACLE) =>
             \/ /\ gcall'.approvedBy = "grant"
                /\ hasTimeBoundAccess(gcall'.tabId)
             \/ /\ gcall'.approvedBy = "user"
                /\ gcall.pc = "confirmAction"
                /\ panelRequest = [requestId |-> gcall.requestId, tabId |-> gcall.tabId]
                /\ pending[gcall.requestId].kind = "action"
                /\ pending'[gcall.requestId] = NoEntry]_vars

\* an Actor tool of a plan runs on tab 2 by the user's approval of its request,
\* while tab 1 holds time-bound access
C38_Witness ==
    /\ gcall.handlerRan
    /\ gcall.via = "executePlan"
    /\ gcall.tier = ACTOR
    /\ gcall.tabId = 2
    /\ gcall.approvedBy = "user"
    /\ hasTimeBoundAccess(1)
    /\ ~hasTimeBoundAccess(2)

\* the tab holds the scope at the time t
ScopeHeld(access, t, tabId, scope) ==
    /\ access[tabId].expiresAt # 0
    /\ t < access[tabId].expiresAt
    /\ scope \in access[tabId].scopes

\* C39: a scope granted to a tab with a TTL stays granted until the TTL
\* expires: no step, of whatever other request that is approved for the tab,
\* takes a scope from the tab before the expiry of its entry.
C39_ScopeKeptUntilExpiry ==
    [][\A tabId \in Tabs, scope \in UNION ScopeRequests :
          (ScopeHeld(scopeAccess, gateNow, tabId, scope) /\ gateNow' < scopeAccess[tabId].expiresAt)
              => ScopeHeld(scopeAccess', gateNow', tabId, scope)]_vars

\* the same for the steps that are not the approval of a scopes request of the tab
C39_ScopeKeptByOtherSteps ==
    [][\A tabId \in Tabs, scope \in UNION ScopeRequests :
          (/\ ScopeHeld(scopeAccess, gateNow, tabId, scope)
           /\ gateNow' < scopeAccess[tabId].expiresAt
           /\ ~(panelRequest.tabId = tabId /\ pending[panelRequest.requestId].kind = "scopes"))
              => ScopeHeld(scopeAccess', gateNow', tabId, scope)]_vars

\* C40: the time-bound action access of a tab is written only by the approval
\* of an action request of that tab: the approval of a scopes request, with
\* or without TTL, leaves it as it is, so that it lets no later confirmAction
\* answer true without a prompt.
C40_ActionAccessOnlyByActionApproval ==
    [][\A tabId \in Tabs :
          tabAccess'[tabId] # tabAccess[tabId] =>
              /\ panelRequest.tabId = tabId
              /\ pending[panelRequest.requestId].kind = "action"]_vars

\* the same for the approvals without TTL
C40_NoAccessWithoutTtl ==
    [][\A answer \in PanelAnswers :
          (Respond(answer) /\ answer.ttlMs = 0) => UNCHANGED tabAccess]_vars

====
